---- MODULE Spec2Model ----
(***************************************************************************)
(* Payslip ("holerite") analyser of main.py: text normalisation, regime    *)
(* classification, field extraction, card-line classification, value       *)
(* parsing and the card-margin calculation.                                *)
(*                                                                         *)
(* A Python str is a sequence of characters.  A character is a one-letter  *)
(* string; an accented letter is written with its accent after it          *)
(* ("A'" acute, "A!" grave, "A~" tilde, "A^" circumflex, "C," cedilla,     *)
(* "U:" diaeresis), the line break is "\n".  A Python float holding money  *)
(* is an integer number of centavos (1234.56 is 123456).                   *)
(***************************************************************************)
EXTENDS Integers, Sequences, FiniteSets, TLC

VARIABLES pc, texto, resultado, campos, linha, valores, args, margem,
          lote, df_resultados, erros, entrada, normalizado

\* the state of the batch analysis
vars_lote == <<lote, df_resultados, erros>>

\* the state of a call of the normaliser
vars_norm == <<entrada, normalizado>>

vars == <<pc, texto, resultado, campos, linha, valores, args, margem, vars_lote, vars_norm>>

(***************************************************************************)
(* Python built-ins on str                                                 *)
(***************************************************************************)

Max(S) == CHOOSE x \in S : \A y \in S : y <= x

Min(S) == CHOOSE x \in S : \A y \in S : x <= y

Digits == {"0", "1", "2", "3", "4", "5", "6", "7", "8", "9"}

Whitespace == {" ", "\n", "\t"}

\* `sub in s`
Contains(s, sub) ==
    \E i \in 0..(Len(s) - Len(sub)) : \A j \in 1..Len(sub) : s[i + j] = sub[j]

\* any(kw in s for kw in kws)
ContainsAny(s, kws) == \E kw \in kws : Contains(s, kw)

\* s.startswith(prefix)
StartsWith(s, prefix) ==
    Len(prefix) <= Len(s) /\ \A j \in 1..Len(prefix) : s[j] = prefix[j]

\* s.strip()
Strip(s) ==
    LET keep == {i \in 1..Len(s) : s[i] \notin Whitespace}
    IN  IF keep = {} THEN <<>> ELSE SubSeq(s, Min(keep), Max(keep))

\* s.replace(old, new) for a one-character old; new is a str (possibly empty)
RECURSIVE Replace(_, _, _)
Replace(s, old, new) ==
    IF s = <<>> THEN <<>>
    ELSE (IF Head(s) = old THEN new ELSE <<Head(s)>>) \o Replace(Tail(s), old, new)

\* s.split('\n')
RECURSIVE Split(_)
Split(s) ==
    LET brk == {i \in 1..Len(s) : s[i] = "\n"}
    IN  IF brk = {} THEN <<s>>
        ELSE <<SubSeq(s, 1, Min(brk) - 1)>> \o Split(SubSeq(s, Min(brk) + 1, Len(s)))

\* str.upper(), for one character
UpperChar(c) ==
    CASE c = "a" -> "A" [] c = "b" -> "B" [] c = "c" -> "C" [] c = "d" -> "D"
      [] c = "e" -> "E" [] c = "f" -> "F" [] c = "g" -> "G" [] c = "h" -> "H"
      [] c = "i" -> "I" [] c = "j" -> "J" [] c = "k" -> "K" [] c = "l" -> "L"
      [] c = "m" -> "M" [] c = "n" -> "N" [] c = "o" -> "O" [] c = "p" -> "P"
      [] c = "q" -> "Q" [] c = "r" -> "R" [] c = "s" -> "S" [] c = "t" -> "T"
      [] c = "u" -> "U" [] c = "v" -> "V" [] c = "w" -> "W" [] c = "x" -> "X"
      [] c = "y" -> "Y" [] c = "z" -> "Z" [] c = "a'" -> "A'" [] c = "a!" -> "A!"
      [] c = "a~" -> "A~" [] c = "a^" -> "A^" [] c = "e'" -> "E'" [] c = "e^" -> "E^"
      [] c = "i'" -> "I'" [] c = "o'" -> "O'" [] c = "o~" -> "O~" [] c = "o^" -> "O^"
      [] c = "u'" -> "U'" [] c = "c," -> "C," [] c = "u:" -> "U:"
      [] OTHER -> c

Upper(s) == [i \in 1..Len(s) |-> UpperChar(s[i])]

\* float(s) of a decimal literal, in centavos: digits, or digits '.' and one or
\* two digits (every pattern below ends in \d{2}); anything else raises.
ValueError == -1

RECURSIVE ParseInt(_)
ParseInt(s) ==
    IF s = <<>> THEN 0
    ELSE ParseInt(SubSeq(s, 1, Len(s) - 1)) * 10
         + (CHOOSE d \in 0..9 : ToString(d) = s[Len(s)])

Float(s) ==
    LET dots == {i \in 1..Len(s) : s[i] = "."}
        rest == {i \in 1..Len(s) : s[i] \notin Digits /\ s[i] # "."}
    IN  IF s = <<>> \/ rest # {} \/ Cardinality(dots) > 1 THEN ValueError
        ELSE IF dots = {} THEN ParseInt(s) * 100
        ELSE LET d    == Min(dots)
                 frac == SubSeq(s, d + 1, Len(s))
             IN  IF Len(s) = 1 \/ Len(frac) > 2 THEN ValueError
                 ELSE ParseInt(SubSeq(s, 1, d - 1)) * 100
                      + (IF Len(frac) = 2 THEN ParseInt(frac)
                         ELSE IF Len(frac) = 1 THEN ParseInt(frac) * 10 ELSE 0)

(***************************************************************************)
(* Regular expressions of main.py (re.search / re.findall): leftmost       *)
(* match, greedy quantifiers with backtracking, alternatives in order.     *)
(***************************************************************************)

IsDigitAt(s, i) == i >= 1 /\ i <= Len(s) /\ s[i] \in Digits

IsAt(s, i, c) == i >= 1 /\ i <= Len(s) /\ s[i] = c

\* \d+ at i, greedy: the length of the run of digits that starts at i
RECURSIVE DigitsFrom(_, _)
DigitsFrom(s, i) == IF IsDigitAt(s, i) THEN 1 + DigitsFrom(s, i + 1) ELSE 0

\* (?:\.\d{3})* at i, greedy: the number of consecutive groups that start at i
RECURSIVE GroupsFrom(_, _)
GroupsFrom(s, i) ==
    IF IsAt(s, i, ".") /\ IsDigitAt(s, i + 1) /\ IsDigitAt(s, i + 2) /\ IsDigitAt(s, i + 3)
    THEN 1 + GroupsFrom(s, i + 4) ELSE 0

\* ,\d{2} at i
DecimalsAt(s, i) == IsAt(s, i, ",") /\ IsDigitAt(s, i + 1) /\ IsDigitAt(s, i + 2)

\* the rest of the pattern after \d{1,3} took n digits: the groups give back
\* one at a time until ,\d{2} matches
RECURSIVE MatchGroupsAt(_, _, _)
MatchGroupsAt(s, i, g) ==
    IF DecimalsAt(s, i + 4 * g) THEN i + 4 * g + 3
    ELSE IF g = 0 THEN 0
    ELSE MatchGroupsAt(s, i, g - 1)

\* \d{1,3} took n digits at i and the rest of the pattern ended at e (0: it
\* failed, and \d{1,3} gives one digit back)
RECURSIVE MatchMilharFrom(_, _, _)
MatchMilharOuMenos(s, i, n, e) == IF e # 0 THEN e ELSE MatchMilharFrom(s, i, n - 1)

MatchMilharFrom(s, i, n) ==
    IF n = 0 THEN 0
    ELSE MatchMilharOuMenos(s, i, n, MatchGroupsAt(s, i + n, GroupsFrom(s, i + n)))

\* \d{1,3}(?:\.\d{3})*,\d{2} at i: the position after the match, 0 for no match
MatchMilharAt(s, i) == MatchMilharFrom(s, i, Min({3, DigitsFrom(s, i)}))

\* \d+ took k digits at i; on failure it gives one back
RECURSIVE MatchDigitsThen(_, _, _, _)
MatchDigitsThen(s, i, k, seps) ==
    IF k = 0 THEN 0
    ELSE IF /\ \E c \in seps : IsAt(s, i + k, c)
            /\ IsDigitAt(s, i + k + 1) /\ IsDigitAt(s, i + k + 2)
    THEN i + k + 3
    ELSE MatchDigitsThen(s, i, k - 1, seps)

\* \d+,\d{2} at i
MatchSimplesAt(s, i) == MatchDigitsThen(s, i, DigitsFrom(s, i), {","})

\* the second alternative is tried when the first one failed (m = 0)
MatchOuSimples(s, i, m) == IF m # 0 THEN m ELSE MatchSimplesAt(s, i)

\* \d{1,3}(?:\.\d{3})*,\d{2}|\d+,\d{2} at i
MatchValorAt(s, i) == MatchOuSimples(s, i, MatchMilharAt(s, i))

\* re.findall(r'\d{1,3}(?:\.\d{3})*,\d{2}|\d+,\d{2}', s), scanning from pos;
\* e is the end of the match at pos (0: none, the scan moves one character on)
RECURSIVE FindAllFrom(_, _)
FindAllPasso(s, pos, e) ==
    IF e = 0 THEN FindAllFrom(s, pos + 1)
    ELSE <<SubSeq(s, pos, e - 1)>> \o FindAllFrom(s, e)

FindAllFrom(s, pos) ==
    IF pos > Len(s) THEN <<>> ELSE FindAllPasso(s, pos, MatchValorAt(s, pos))

FindAllValores(s) == FindAllFrom(s, 1)

\* re.search: fim[i] is the end of the match that starts at i (0: none); the
\* leftmost match, <<>> for None, else <<match>>
PrimeiroMatch(s, fim) ==
    LET at == {i \in DOMAIN fim : fim[i] # 0}
    IN  IF at = {} THEN <<>> ELSE <<SubSeq(s, Min(at), fim[Min(at)] - 1)>>

\* re.search(r'\d{1,3}(?:\.\d{3})*,\d{2}', s)
SearchMilhar(s) == PrimeiroMatch(s, [i \in 1..Len(s) |-> MatchMilharAt(s, i)])

\* (\d+[.,]\d{2}) at i
MatchDoisDecimaisAt(s, i) == MatchDigitsThen(s, i, DigitsFrom(s, i), {".", ","})

\* re.search(r'(\d+[.,]\d{2})', s)
SearchDoisDecimais(s) == PrimeiroMatch(s, [i \in 1..Len(s) |-> MatchDoisDecimaisAt(s, i)])

\* re.search(r'(\d{6})', s)
SearchSeisDigitos(s) ==
    PrimeiroMatch(s, [i \in 1..Len(s) |-> IF DigitsFrom(s, i) >= 6 THEN i + 6 ELSE 0])

\* a conversion that keeps the thousands separators: float('1.234.56') raises
ConverterSemMilhar(token) == Float(Replace(token, ",", <<".">>))

\* valor.replace('.', '').replace(',', '.') then float(...)
ParseValor(token) == Float(Replace(Replace(token, ".", <<>>), ",", <<".">>))

(***************************************************************************)
(* Text normaliser and value parser                                        *)
(***************************************************************************)

\* the dict of normalizar_texto
acentos ==
    [c \in {"A'", "A!", "A~", "A^", "E'", "E^", "I'", "O'", "O~", "O^", "U'", "C,"} |->
        IF c \in {"A'", "A!", "A~", "A^"} THEN "A"
        ELSE IF c \in {"E'", "E^"} THEN "E"
        ELSE IF c = "I'" THEN "I"
        ELSE IF c \in {"O'", "O~", "O^"} THEN "O"
        ELSE IF c = "U'" THEN "U"
        ELSE "C"]

\* the replaces of the dict on one character: every entry puts a plain letter,
\* which no other entry replaces, for one accented letter
SemAcento(c) == IF c \in DOMAIN acentos THEN acentos[c] ELSE c

\* texto.upper() without the loop of replaces
SoMaiusculas(t) == Upper(t)

\* texto.upper(), then the loop of replaces
normalizar_texto(t) == [i \in 1..Len(t) |-> SemAcento(UpperChar(t[i]))]

\* valores[-1] converted, 0.0 for an empty list
UltimoValor(valores_achados) ==
    IF valores_achados # <<>> THEN ParseValor(valores_achados[Len(valores_achados)]) ELSE 0

\* valores[-2] converted, valores[0] for a list of one, 0.0 for an empty list
PenultimoValor(valores_achados) ==
    IF Len(valores_achados) >= 2 THEN ParseValor(valores_achados[Len(valores_achados) - 1])
    ELSE IF Len(valores_achados) = 1 THEN ParseValor(valores_achados[1])
    ELSE 0

extrair_valores_linha(l) == UltimoValor(FindAllValores(l))

\* the last-token policy applied to the earnings column
UltimoToken(l) == UltimoValor(FindAllValores(l))

extrair_valores_vencimento(l) == PenultimoValor(FindAllValores(l))

extrair_valores_desconto(l) == UltimoValor(FindAllValores(l))

(***************************************************************************)
(* Vocabularies                                                            *)
(***************************************************************************)

NOSSOS_PRODUTOS == << <<"S","T","A","R","C","A","R","D">>, <<"A","N","T","I","C","I","P","A","Y">>, <<"S","T","A","R","B","A","N","K">> >>

CARTOES_CONHECIDOS ==
    << <<"N","I","O">>, <<"D","A","Y","C","O","V","A","L">>, <<"B","M","G">>, <<"P","A","N">>, <<"V","E","M","C","A","R","D">>, <<"P","I","X","C","A","R","D">>,
       <<"M","E","U","C","A","S","H","C","A","R","D">>, <<"P","I","N","E">>, <<"B","R","A","D","E","S","C","O">> >>

TERMOS_EXCLUSAO ==
    { <<"E","M","P","R","E","S","T","I","M","O">>, <<"E","M","P"," ">>, <<" ","E","M","P">>, <<"C","O","N","S","I","G","N","A","D","O">>,
      <<"F","I","N","A","N","C","I","A","M","E","N","T","O">>, <<"C","R","E","D","I","T","O"," ","P","E","S","S","O","A","L">>, <<"C","P"," ">> }

Range(f) == {f[i] : i \in DOMAIN f}

(***************************************************************************)
(* Regime classifier                                                       *)
(***************************************************************************)

\* the if/elif chain with the CLT test ahead of the ESTATUTARIO test
RegimeCltPrimeiro(texto_normalizado) ==
    IF Contains(texto_normalizado, <<"C","L","T">>) THEN "CLT"
    ELSE IF Contains(texto_normalizado, <<"E","S","T","A","T","U","T","A","R","I","O">>)
            \/ Contains(texto_normalizado, <<"E","S","T","A","T","U","A","R","I","O">>)
    THEN "ESTATUTARIO"
    ELSE IF Contains(texto_normalizado, <<"C","O","M","I","S","S","I","O","N","A","D","O">>) THEN "COMISSIONADO"
    ELSE IF Contains(texto_normalizado, <<"T","E","M","P","O","R","A","R","I","O">>) THEN "TEMPORARIO"
    ELSE "NAO IDENTIFICADO"

\* the if/elif chain over the normalised text
RegimeDoTexto(texto_normalizado) ==
    IF Contains(texto_normalizado, <<"E","S","T","A","T","U","T","A","R","I","O">>)
       \/ Contains(texto_normalizado, <<"E","S","T","A","T","U","A","R","I","O">>)
    THEN "ESTATUTARIO"
    ELSE IF Contains(texto_normalizado, <<"C","L","T">>) THEN "CLT"
    ELSE IF Contains(texto_normalizado, <<"C","O","M","I","S","S","I","O","N","A","D","O">>) THEN "COMISSIONADO"
    ELSE IF Contains(texto_normalizado, <<"T","E","M","P","O","R","A","R","I","O">>)
            \/ Contains(texto_normalizado, <<"T","E","M","P","O","R","A'","R","I","O">>)
    THEN "TEMPORARIO"
    ELSE "NAO IDENTIFICADO"

extrair_regime_contrato(t) == RegimeDoTexto(normalizar_texto(t))

(***************************************************************************)
(* Line classifier                                                         *)
(***************************************************************************)

\* the append without the test for a line already in the list
AppendSempre(lista, x) == Append(lista, x)

\* if x not in lista: lista.append(x)
AppendUnique(lista, x) == IF x \in Range(lista) THEN lista ELSE Append(lista, x)

KwNossos == { <<"C","A","R","T","A","O">>, <<"C","R","E","D">>, <<"A","N","T","I","C","I","P","A","Y">>, <<"S","T","A","R","C","A","R","D">>, <<"S","T","A","R","B","A","N","K">> }

KwConhecidos == { <<"C","A","R","T","A","O">>, <<"C","R","E","D">>, <<"C","A","R","T",".">>, <<"C","A","R","T">> }

KwDesconhecidos == { <<"C","A","R","T","A","O">>, <<"C","A","R","T"," ">>, <<"C","R","E","D">>, <<"C","R","E","D","I","T","O">>, <<"C","A","R","T",".">> }

\* the test that skips a loan line (continue)
TemTermoExclusao(l) == ContainsAny(l, TERMOS_EXCLUSAO)

\* the inner loop of sections 1 and 2 without the exclusion test
RECURSIVE LinhasDaMarcaSemExclusao(_, _, _, _)
LinhasDaMarcaSemExclusao(lista, linhas, marca, kws) ==
    IF linhas = <<>> THEN lista
    ELSE LET l == Head(linhas)
             nova == IF Contains(l, marca) /\ ContainsAny(l, kws)
                     THEN AppendUnique(lista, Strip(l))
                     ELSE lista
         IN  LinhasDaMarcaSemExclusao(nova, Tail(linhas), marca, kws)

\* inner loop of sections 1 and 2: the lines naming `marca` with a card keyword
RECURSIVE LinhasDaMarca(_, _, _, _)
LinhasDaMarca(lista, linhas, marca, kws) ==
    IF linhas = <<>> THEN lista
    ELSE LET l == Head(linhas)
             nova == IF Contains(l, marca) /\ ContainsAny(l, kws)
                        /\ ~TemTermoExclusao(l)
                     THEN AppendUnique(lista, Strip(l))
                     ELSE lista
         IN  LinhasDaMarca(nova, Tail(linhas), marca, kws)

\* outer loop of sections 1 and 2 over the brand vocabulary
RECURSIVE LinhasDasMarcas(_, _, _, _, _)
LinhasDasMarcas(lista, marcas, texto_normalizado, linhas, kws) ==
    IF marcas = <<>> THEN lista
    ELSE LET nova == IF Contains(texto_normalizado, Head(marcas))
                     THEN LinhasDaMarca(lista, linhas, Head(marcas), kws)
                     ELSE lista
         IN  LinhasDasMarcas(nova, Tail(marcas), texto_normalizado, linhas, kws)

\* section 3 taking only the lines that carry a value
EhDesconhecidoComValor(l, linha_norm) ==
    /\ ~TemTermoExclusao(linha_norm)
    /\ ContainsAny(linha_norm, KwDesconhecidos)
    /\ ~\E p \in Range(NOSSOS_PRODUTOS) : Contains(linha_norm, p)
    /\ ~\E c \in Range(CARTOES_CONHECIDOS) : Contains(linha_norm, c)
    /\ FindAllValores(l) # <<>>

\* section 3, one line: a card keyword, no loan term, no brand of either
\* vocabulary, and a trimmed text that is not empty
EhDesconhecido(l, linha_norm) ==
    /\ ~TemTermoExclusao(linha_norm)
    /\ ContainsAny(linha_norm, KwDesconhecidos)
    /\ ~\E p \in Range(NOSSOS_PRODUTOS) : Contains(linha_norm, p)
    /\ ~\E c \in Range(CARTOES_CONHECIDOS) : Contains(linha_norm, c)
    /\ Strip(l) # <<>>

\* section 3: card lines naming no known brand
RECURSIVE LinhasDesconhecidas(_, _)
LinhasDesconhecidas(lista, linhas) ==
    IF linhas = <<>> THEN lista
    ELSE LinhasDesconhecidas(
             IF EhDesconhecido(Head(linhas), normalizar_texto(Head(linhas)))
             THEN AppendUnique(lista, Strip(Head(linhas)))
             ELSE lista,
             Tail(linhas))

SecaoNossosContratos(texto_normalizado, linhas) ==
    LinhasDasMarcas(<<>>, NOSSOS_PRODUTOS, texto_normalizado, linhas, KwNossos)

SecaoConhecidos(texto_normalizado, linhas) ==
    LinhasDasMarcas(<<>>, CARTOES_CONHECIDOS, texto_normalizado, linhas, KwConhecidos)

\* the three sections over the lines of the normalised text
SecoesDoTexto(texto_normalizado, linhas) ==
    [nossos_contratos |-> SecaoNossosContratos(texto_normalizado, linhas),
     conhecidos       |-> SecaoConhecidos(texto_normalizado, linhas),
     desconhecidos    |-> LinhasDesconhecidas(<<>>, linhas)]

identificar_cartoes_credito(t) ==
    SecoesDoTexto(normalizar_texto(t), Split(normalizar_texto(t)))

(***************************************************************************)
(* Field extractor                                                         *)
(***************************************************************************)

\* info['liquido'] starts as the str '' and becomes a float when a line gives it
LiquidoStr(s) == [tipo |-> "str", val |-> s]

LiquidoFloat(x) == [tipo |-> "float", val |-> x]

InfoInicial ==
    [nome |-> <<>>, matricula |-> <<>>, vencimentos_total |-> 0,
     descontos_total |-> 0, liquido |-> LiquidoStr(<<>>)]

\* info[campo] = float(match converted) when the search matched
ComValor(info, campo, match) ==
    IF match # <<>> THEN [info EXCEPT ![campo] = ParseValor(match[1])] ELSE info

ComNome(info, linhas, i) ==
    IF Contains(linhas[i], <<"N","O","M","E">>) /\ i + 1 <= Len(linhas)
    THEN [info EXCEPT !.nome = Strip(linhas[i + 1])] ELSE info

ComMatriculaDe(info, match) ==
    IF match # <<>> THEN [info EXCEPT !.matricula = match[1]] ELSE info

ComMatricula(info, l) ==
    IF Contains(l, <<"M","A","T","R","I","C","U","L","A">>) THEN ComMatriculaDe(info, SearchSeisDigitos(l)) ELSE info

ComVencimentos(info, l) ==
    IF Contains(l, <<"V","E","N","C","I","M","E","N","T","O","S">>) /\ ~Contains(l, <<"D","E","S","C","O","N","T","O","S">>)
    THEN ComValor(info, "vencimentos_total", SearchDoisDecimais(l)) ELSE info

ComDescontos(info, l) ==
    IF Contains(l, <<"D","E","S","C","O","N","T","O","S">>) /\ ~Contains(l, <<"V","E","N","C","I","M","E","N","T","O","S">>)
    THEN ComValor(info, "descontos_total", SearchDoisDecimais(l)) ELSE info

ComLiquidoDe(info, match) ==
    IF match # <<>> THEN [info EXCEPT !.liquido = LiquidoFloat(ParseValor(match[1]))] ELSE info

ComLiquido(info, l) ==
    IF Contains(normalizar_texto(l), <<"L","I","Q","U","I","D","O">>) THEN ComLiquidoDe(info, SearchMilhar(l))
    ELSE info

\* the body of the for loop, for line i: the five tests in the order of the code
InfoLinha(info, linhas, i) ==
    ComLiquido(ComDescontos(ComVencimentos(ComMatricula(ComNome(info, linhas, i),
        linhas[i]), linhas[i]), linhas[i]), linhas[i])

RECURSIVE InfoScan(_, _, _)
InfoScan(info, linhas, i) ==
    IF i > Len(linhas) THEN info
    ELSE InfoScan(InfoLinha(info, linhas, i), linhas, i + 1)

extrair_informacoes_financeiras(t) == InfoScan(InfoInicial, Split(t), 1)

(***************************************************************************)
(* Salary, fixed earnings and mandatory deductions                         *)
(***************************************************************************)

\* priority 1: VENCIMENTO(S) ESTATUTARIO(S) with a positive value on the line
EhVencimentoEstatutario(l, linha_norm) ==
    /\ \/ Contains(linha_norm, <<"V","E","N","C","I","M","E","N","T","O","S"," ","E","S","T","A","T","U","T","A","R","I","O","S">>)
       \/ Contains(linha_norm, <<"V","E","N","C","I","M","E","N","T","O"," ","E","S","T","A","T","U","T","A","R","I","O">>)
    /\ extrair_valores_vencimento(l) > 0

\* priority 2: VENCIMENTO BASE with a value on the next line
EhVencimentoBase(linhas, i, linha_norm) ==
    /\ Contains(linha_norm, <<"V","E","N","C","I","M","E","N","T","O"," ","B","A","S","E">>)
    /\ i + 1 <= Len(linhas)
    /\ FindAllValores(linhas[i + 1]) # <<>>

\* priority 3: SALARIO BASE, or a line that starts with SALARIO and is no discount
EhSalarioBase(l, linha_norm) ==
    /\ \/ Contains(linha_norm, <<"S","A","L","A","R","I","O"," ","B","A","S","E">>)
       \/ /\ StartsWith(Strip(linha_norm), <<"S","A","L","A","R","I","O">>)
          /\ ~Contains(linha_norm, <<"D","E","S","C","O","N","T","O">>)
    /\ extrair_valores_vencimento(l) > 0

\* one loop over the lines: the first line that any of the three rules takes
\* decides
SalarioPorOrdemDasLinhas(linhas, p1, p2, p3) ==
    IF p1 \cup p2 \cup p3 = {} THEN 0
    ELSE IF Min(p1 \cup p2 \cup p3) \in p1
         THEN extrair_valores_vencimento(linhas[Min(p1 \cup p2 \cup p3)])
    ELSE IF Min(p1 \cup p2 \cup p3) \in p2
         THEN ParseValor(FindAllValores(linhas[Min(p1 \cup p2 \cup p3) + 1])[1])
    ELSE extrair_valores_vencimento(linhas[Min(p1 \cup p2 \cup p3)])

\* the first loop that returns decides; p1, p2, p3 are the lines on which the
\* loops of the three priorities would return
SalarioDasLinhas(linhas, p1, p2, p3) ==
    IF p1 # {} THEN extrair_valores_vencimento(linhas[Min(p1)])
    ELSE IF p2 # {} THEN ParseValor(FindAllValores(linhas[Min(p2) + 1])[1])
    ELSE IF p3 # {} THEN extrair_valores_vencimento(linhas[Min(p3)])
    ELSE 0

SalarioBruto(linhas) ==
    SalarioDasLinhas(linhas,
        {i \in 1..Len(linhas) : EhVencimentoEstatutario(linhas[i], normalizar_texto(linhas[i]))},
        {i \in 1..Len(linhas) : EhVencimentoBase(linhas, i, normalizar_texto(linhas[i]))},
        {i \in 1..Len(linhas) : EhSalarioBase(linhas[i], normalizar_texto(linhas[i]))})

extrair_salario_bruto(t) == SalarioBruto(Split(t))

\* the list literal of line 391: 'ATIV.EXTRA' 'INSALUBRIDADE' has no comma between
\* the two literals, which Python joins into one string
OutrosFixosKw ==
    { <<"H","O","R","A"," ","A","T","I","V">>, <<"E","X","T","R","A"," ","C","L","A","S","S","E">>, <<"A","T","I","V",".","E","X","T","R","A","I","N","S","A","L","U","B","R","I","D","A","D","E">>,
      <<"P","E","R","I","C","U","L","O","S","I","D","A","D","E">>, <<"A","D","I","C","I","O","N","A","L"," ","N","O","T","U","R","N","O">> }

VencimentosFixosInicial ==
    [adicional_tempo_servico |-> 0, sexta_parte |-> 0, outros_fixos |-> <<>>, total |-> 0]

\* outros_fixos.append({...}); total += valor
ComOutroFixo(vf, l, valor) ==
    [vf EXCEPT !.outros_fixos = Append(@, [descricao |-> Strip(l), valor |-> valor]),
               !.total = @ + valor]

\* the if/elif chain of the loop body, for a line, its normalised form and the
\* value its earnings column holds
VencimentosFixosRamo(vf, l, linha_norm, valor) ==
    IF Contains(linha_norm, <<"A","D","I","C","I","O","N","A","L"," ","T","E","M","P","O"," ","S","E","R","V","I","C","O">>)
       \/ Contains(linha_norm, <<"A","D","I","C","I","O","N","A","L"," ","T","E","M","P","O">>)
    THEN IF valor > 0
         THEN [vf EXCEPT !.adicional_tempo_servico = valor, !.total = @ + valor]
         ELSE vf
    ELSE IF Contains(linha_norm, <<"6","A",".","P","A","R","T","E">>) \/ Contains(linha_norm, <<"6","A"," ","P","A","R","T","E">>)
            \/ Contains(linha_norm, <<"S","E","X","T","A"," ","P","A","R","T","E">>)
    THEN IF valor > 0
         THEN [vf EXCEPT !.sexta_parte = valor, !.total = @ + valor]
         ELSE vf
    ELSE IF Contains(linha_norm, <<"A","U","L","A"," ","S","U","P","L","E","M","E","N","T","A","R">>)
    THEN IF valor > 0 THEN ComOutroFixo(vf, l, valor) ELSE vf
    ELSE IF Contains(linha_norm, <<"G","R","A","T">>) /\ Contains(linha_norm, <<"I","N","C","O","R","P","O","R","A","D","A">>)
    THEN IF valor > 0 THEN ComOutroFixo(vf, l, valor) ELSE vf
    ELSE IF ContainsAny(linha_norm, OutrosFixosKw)
    THEN IF ~Contains(linha_norm, <<"D","E","S","C","O","N","T","O">>) /\ valor > 0
         THEN ComOutroFixo(vf, l, valor) ELSE vf
    ELSE vf

\* the body of the for loop of extrair_vencimentos_fixos
VencimentosFixosLinha(vf, l) ==
    VencimentosFixosRamo(vf, l, normalizar_texto(l), extrair_valores_vencimento(l))

RECURSIVE VencimentosFixosScan(_, _)
VencimentosFixosScan(vf, linhas) ==
    IF linhas = <<>> THEN vf
    ELSE VencimentosFixosScan(VencimentosFixosLinha(vf, Head(linhas)), Tail(linhas))

extrair_vencimentos_fixos(t) == VencimentosFixosScan(VencimentosFixosInicial, Split(t))

DescontosObrigatoriosInicial == [inss |-> 0, irrf |-> 0, previdencia |-> 0, total |-> 0]

PrevidenciaKw ==
    { <<"P","R","E","V">>, <<"P","R","E","V","I","D","E","N","C","I","A">>, <<"R","P","P","S">>, <<"U","A","S","P","R","E","V">>, <<"I","P","S","M">>, <<"F","U","N","P","R","E","V">> }

\* the if/elif chain of the loop body, for the normalised line and the value
\* its deduction column holds
DescontosObrigatoriosRamo(d, linha_norm, valor) ==
    IF Contains(linha_norm, <<"I",".","N",".","S",".","S">>) \/ Contains(linha_norm, <<"I","N","S","S">>)
    THEN IF valor > 0 THEN [d EXCEPT !.inss = valor, !.total = @ + valor] ELSE d
    ELSE IF Contains(linha_norm, <<"I","R","R","F">>) \/ Contains(linha_norm, <<"I",".","R",".","R",".","F">>)
            \/ Contains(linha_norm, <<"I","M","P","O","S","T","O"," ","D","E"," ","R","E","N","D","A">>)
            \/ Contains(linha_norm, <<"I","R"," ">>)
    THEN IF valor > 0 THEN [d EXCEPT !.irrf = valor, !.total = @ + valor] ELSE d
    ELSE IF ContainsAny(linha_norm, PrevidenciaKw)
    THEN IF valor > 0 THEN [d EXCEPT !.previdencia = valor, !.total = @ + valor] ELSE d
    ELSE d

\* the body of the for loop of extrair_descontos_obrigatorios
DescontosObrigatoriosLinha(d, l) ==
    DescontosObrigatoriosRamo(d, normalizar_texto(l), extrair_valores_desconto(l))

RECURSIVE DescontosObrigatoriosScan(_, _)
DescontosObrigatoriosScan(d, linhas) ==
    IF linhas = <<>> THEN d
    ELSE DescontosObrigatoriosScan(DescontosObrigatoriosLinha(d, Head(linhas)), Tail(linhas))

extrair_descontos_obrigatorios(t) ==
    DescontosObrigatoriosScan(DescontosObrigatoriosInicial, Split(t))

\* keywords of extrair_descontos_fixos, in the dict's order
DescontosFixosKw ==
    << <<"inss", { <<"I","N","S","S">>, <<"I",".","N",".","S",".","S">>, <<"I","N","S","T","I","T","U","T","O"," ","N","A","C","I","O","N","A","L">> }>>,
       <<"irrf", { <<"I","R","R","F">>, <<"I",".","R",".","R",".","F">>, <<"I","M","P","O","S","T","O"," ","D","E"," ","R","E","N","D","A">>, <<"I","R"," ","F","O","N","T","E">>, <<"I","M","P"," ","R","E","N","D","A">> }>>,
       <<"previdencia", PrevidenciaKw>>,
       <<"pensao", { <<"P","E","N","S","A","O">>, <<"P","E","N","S","A~","O">>, <<"A","L","I","M","E","N","T","I","C","I","A">>, <<"A","L","I","M","E","N","T","I'","C","I","A">> }>>,
       <<"plano_saude", { <<"P","L","A","N","O">>, <<"S","A","U","D","E">>, <<"S","A","U'","D","E">>, <<"A","S","S","I","S","T","E","N","C","I","A"," ","M","E","D","I","C","A">>,
                          <<"U","N","I","M","E","D">>, <<"A","M","I","L">> }>>,
       <<"vale_transporte", { <<"V","A","L","E"," ","T","R","A","N","S","P","O","R","T","E">>, <<"V","T">>, <<"V",".","T","R","A","N","S","P","O","R","T","E">>, <<"T","R","A","N","S","P">> }>> >>

DescontosFixosInicial ==
    [inss |-> 0, irrf |-> 0, previdencia |-> 0, pensao |-> 0, plano_saude |-> 0,
     vale_transporte |-> 0, outros |-> <<>>]

\* the value goes to the category and the line to the list
ComDescontoFixo(d, l, valor, categoria) ==
    [d EXCEPT ![categoria] = @ + valor,
              !.outros = Append(@, [descricao |-> Strip(l), valor |-> valor,
                                    categoria |-> categoria])]

\* hit: the positions in keywords of the categories with a keyword on the line
DescontosFixosRamo(d, l, valor, hit) ==
    IF hit = {} \/ ~(valor > 0) THEN d
    ELSE ComDescontoFixo(d, l, valor, DescontosFixosKw[Min(hit)][1])

CategoriasDaLinha(linha_norm) ==
    {k \in 1..Len(DescontosFixosKw) : ContainsAny(linha_norm, DescontosFixosKw[k][2])}

\* the body of the outer for loop: the first category with a keyword on the line
\* takes the value (break); a line without a positive value changes nothing
DescontosFixosLinha(d, l) ==
    DescontosFixosRamo(d, l, extrair_valores_linha(l), CategoriasDaLinha(normalizar_texto(l)))

RECURSIVE DescontosFixosScan(_, _)
DescontosFixosScan(d, linhas) ==
    IF linhas = <<>> THEN d
    ELSE DescontosFixosScan(DescontosFixosLinha(d, Head(linhas)), Tail(linhas))

extrair_descontos_fixos(t) == DescontosFixosScan(DescontosFixosInicial, Split(t))

(***************************************************************************)
(* Value extractor and margin calculator                                   *)
(***************************************************************************)

\* the entry of a bucket line whose value is positive
ItemDoValor(cartao_linha, valor) ==
    IF valor > 0 THEN << [descricao |-> Strip(cartao_linha), valor |-> valor] >> ELSE <<>>

\* one of the three loops of extrair_valores_cartoes: the priced lines of a bucket
RECURSIVE ValoresDoBalde(_)
ValoresDoBalde(lista) ==
    IF lista = <<>> THEN <<>>
    ELSE ItemDoValor(Head(lista), extrair_valores_desconto(Head(lista)))
         \o ValoresDoBalde(Tail(lista))

RECURSIVE SomaValores(_)
SomaValores(itens) ==
    IF itens = <<>> THEN 0 ELSE Head(itens).valor + SomaValores(Tail(itens))

\* valores['total'] += valor in each of the three loops
ValoresComTotal(nossos, conhecidos, desconhecidos) ==
    [nossos_contratos |-> nossos, conhecidos |-> conhecidos,
     desconhecidos |-> desconhecidos,
     total |-> SomaValores(nossos) + SomaValores(conhecidos) + SomaValores(desconhecidos)]

extrair_valores_cartoes(t, cartoes_encontrados) ==
    ValoresComTotal(ValoresDoBalde(cartoes_encontrados.nossos_contratos),
                    ValoresDoBalde(cartoes_encontrados.conhecidos),
                    ValoresDoBalde(cartoes_encontrados.desconhecidos))

\* percentual_permitido is in hundredths (0.15 is 15); a product with it, and so
\* margem_total and margem_disponivel, is in hundredths of a centavo.
\* percentual_utilizado is in hundredths of a percent, truncated.
PercentualPadrao == 15

PercentualAnalise == 15

\* long division: the digits of q, then `casas` more from the remainder r
RECURSIVE LongDiv(_, _, _, _)
LongDiv(q, r, b, casas) ==
    IF casas = 0 THEN q
    ELSE LongDiv(q * 10 + (r * 10) \div b, (r * 10) % b, b, casas - 1)

\* a / b on floats, a >= 0, as the quotient times 10^casas, truncated; a zero
\* divisor raises
Divide(a, b, casas) ==
    IF b = 0 THEN [raised |-> "ZeroDivisionError"]
    ELSE IF b > 0 THEN [value |-> LongDiv(a \div b, a % b, b, casas)]
    ELSE [value |-> 0 - LongDiv(a \div (0 - b), a % (0 - b), 0 - b, casas)]

\* the quotient without the guard on margem_total
QuocienteSemGuarda(total_cartoes, margem_total) == Divide(total_cartoes, margem_total, 6)

\* (total_cartoes / margem_total * 100) if margem_total > 0 else 0
\* centavos over hundredths of a centavo is the ratio over 100; times 100 for
\* the percentage and 100 for its hundredths: six places of the quotient
PercentualUtilizado(total_cartoes, margem_total) ==
    IF margem_total > 0 THEN Divide(total_cartoes, margem_total, 6)
    ELSE [value |-> 0]

\* the dict returned, or [excecao |-> ...] when the body raises
calcular_margem_disponivel(salario_base, vencimentos_fixos, descontos_obrigatorios, valores_cartoes, percentual_permitido) ==
    LET total_vencimentos_fixos == vencimentos_fixos.total
        total_descontos_obrigatorios == descontos_obrigatorios.total
        base_calculo == salario_base + total_vencimentos_fixos - total_descontos_obrigatorios
        margem_total == base_calculo * percentual_permitido
        total_cartoes == valores_cartoes.total
        margem_disponivel == margem_total - total_cartoes * 100
        percentual_utilizado == PercentualUtilizado(total_cartoes, margem_total)
    IN  IF "raised" \in DOMAIN percentual_utilizado
        THEN [excecao |-> percentual_utilizado.raised]
        ELSE [salario_base |-> salario_base,
              total_vencimentos_fixos |-> total_vencimentos_fixos,
              total_descontos_obrigatorios |-> total_descontos_obrigatorios,
              base_calculo |-> base_calculo,
              percentual_permitido |-> percentual_permitido,
              margem_total |-> margem_total,
              total_cartoes |-> total_cartoes,
              margem_disponivel |-> margem_disponivel,
              percentual_utilizado |-> percentual_utilizado.value,
              tem_margem |-> margem_disponivel > 0]

(***************************************************************************)
(* The main analysis                                                       *)
(***************************************************************************)

None == [none |-> TRUE]

\* the dict returned by the analysis
Analise(t, nome_arquivo, cartoes, vencimentos_fixos, descontos_obrigatorios, valores_cartoes) ==
    [arquivo |-> nome_arquivo,
     regime |-> extrair_regime_contrato(t),
     info_financeira |-> extrair_informacoes_financeiras(t),
     nossos_contratos |-> cartoes.nossos_contratos,
     cartoes_conhecidos |-> cartoes.conhecidos,
     cartoes_desconhecidos |-> cartoes.desconhecidos,
     descontos_fixos |-> extrair_descontos_fixos(t),
     descontos_obrigatorios |-> descontos_obrigatorios,
     vencimentos_fixos |-> vencimentos_fixos,
     valores_cartoes |-> valores_cartoes,
     margem |-> calcular_margem_disponivel(extrair_salario_bruto(t),
                    vencimentos_fixos, descontos_obrigatorios,
                    valores_cartoes, PercentualAnalise),
     texto_completo |-> t]

\* the analysis once the card lines are classified
AnaliseDosCartoes(t, nome_arquivo, cartoes) ==
    Analise(t, nome_arquivo, cartoes, extrair_vencimentos_fixos(t),
            extrair_descontos_obrigatorios(t), extrair_valores_cartoes(t, cartoes))

\* the analysis without the test for a blank text
AnaliseSemTesteDeBranco(t, nome_arquivo) ==
    AnaliseDosCartoes(t, nome_arquivo, identificar_cartoes_credito(t))

analisar_holerite_streamlit(t, nome_arquivo) ==
    IF Strip(t) = <<>> THEN None
    ELSE AnaliseDosCartoes(t, nome_arquivo, identificar_cartoes_credito(t))

(***************************************************************************)
(* Inputs: the texts the PDF extraction hands over                         *)
(***************************************************************************)

MaxLinhas == 2

MaxCampos == 3

MaxPassos == 3

\* payslip lines the documents are made of
Catalogo ==
    { <<"S","T","A","R","C","A","R","D"," ","E","M","P","R","E","S","T","I","M","O"," ","C","O","N","S","I","G","N","A","D","O"," ","5","0","0",",","0","0">>,
      <<"S","T","A","R","C","A","R","D"," ","B","R","A","D","E","S","C","O"," ","C","A","R","T","A","O"," ","1","0","0",",","0","0">>,
      <<"S","T","A","R","C","A","R","D"," ","C","A","R","T","A","O"," ","2","0","0",",","0","0">>,
      <<"B","R","A","D","E","S","C","O"," ","C","A","R","T","A","O"," ","1","5","0",",","0","0">>,
      <<"C","a","r","t","a~","o"," ","d","e"," ","C","r","e'","d","i","t","o"," ","4","5",",","0","0">>,
      <<"B","M","G"," ","C","A","R","T","."," ","E","M","P"," ","8","0",",","0","0">>,
      <<"C","A","R","T","A","O"," ","C","R","E","D","I","T","O"," ","P","E","S","S","O","A","L"," ","6","0",",","0","0">>,
      <<"C","A","R","T","A","O"," ","A","V","U","L","S","O">>,
      <<"P","A","N"," ","C","A","R","T","A","O"," ","C","P">>,
      <<"P","A","N"," ","C","A","R","T","A","O"," ","C","P"," ">>,
      <<"V","E","N","C","I","M","E","N","T","O","S"," ","3",".","0","0","0",",","0","0">>,
      <<"D","E","S","C","O","N","T","O","S"," ","3","0","0",",","0","0">>,
      <<"I","N","S","S"," ","3","0","5",",","3","6">>,
      <<"S","A","L","A","R","I","O"," ","B","A","S","E"," ","3",".","0","0","0",",","0","0">>,
      <<"R","E","G","I","M","E"," ","C","L","T">>,
      <<"R","e","g","i","m","e",":"," ","E","s","t","a","t","u","t","a'","r","i","o">>,
      <<"C","A","R","G","O"," ","C","O","M","I","S","S","I","O","N","A","D","O">>,
      <<"C","o","n","t","r","a","t","o"," ","T","e","m","p","o","r","a'","r","i","o">> }

\* the end-to-end payslip
CenarioLinhas ==
    << <<"N","O","M","E">>, <<"J","O","A","O"," ","S","I","L","V","A">>, <<"M","A","T","R","I","C","U","L","A"," ","1","2","3","4","5","6">>, <<"V","E","N","C","I","M","E","N","T","O","S"," ","3",".","0","0","0",",","0","0">>,
       <<"D","E","S","C","O","N","T","O","S"," ","3","0","0",",","0","0">>, <<"B","R","A","D","E","S","C","O"," ","C","A","R","T","A","O"," ","1","5","0",",","0","0">>, <<"L","I","Q","U","I","D","O"," ","2",".","7","0","0",",","0","0">> >>

\* every line of a page ends with a line break
RECURSIVE JoinLinhas(_)
JoinLinhas(ls) ==
    IF ls = <<>> THEN <<>> ELSE Head(ls) \o <<"\n">> \o JoinLinhas(Tail(ls))

Cenario == JoinLinhas(CenarioLinhas)

SeqsUpTo(S, n) == UNION {[1..k -> S] : k \in 0..n}

Textos == {JoinLinhas(ls) : ls \in SeqsUpTo(Catalogo, MaxLinhas)} \cup {Cenario}

NomeArquivo == "holerite.pdf"

\* a line given as fields: a word, or an amount in centavos written in the
\* Brazilian format with ("1.234,56") or without ("1234,56") thousands separators
Palavras == { <<"D","E","S","C","O","N","T","O"," ","C","A","R","T","A","O">>, <<"S","E","M"," ","N","U","M","E","R","O">>, <<"1","2","3","4","5","6">> }

Quantias == {0, 150, 30000, 123456, 100000000}

Campos ==
    [tipo : {"palavra"}, txt : Palavras]
    \cup {[tipo |-> "valor", centavos |-> q, milhar |-> m] :
             q \in Quantias, m \in {FALSE}}
    \cup {[tipo |-> "valor", centavos |-> q, milhar |-> TRUE] :
             q \in {x \in Quantias : x >= 100000}}

RECURSIVE DigitosDe(_)
DigitosDe(n) ==
    IF n < 10 THEN <<ToString(n)>> ELSE DigitosDe(n \div 10) \o <<ToString(n % 10)>>

RECURSIVE Agrupar(_)
Agrupar(ds) ==
    IF Len(ds) <= 3 THEN ds
    ELSE Agrupar(SubSeq(ds, 1, Len(ds) - 3)) \o <<".">> \o SubSeq(ds, Len(ds) - 2, Len(ds))

FormatarBR(centavos, milhar) ==
    LET inteiro == DigitosDe(centavos \div 100)
    IN  (IF milhar THEN Agrupar(inteiro) ELSE inteiro)
        \o <<",">> \o <<ToString((centavos % 100) \div 10), ToString(centavos % 10)>>

TextoDoCampo(c) == IF c.tipo = "palavra" THEN c.txt ELSE FormatarBR(c.centavos, c.milhar)

RECURSIVE LinhaDosCampos(_)
LinhaDosCampos(cs) ==
    IF cs = <<>> THEN <<>>
    ELSE IF Len(cs) = 1 THEN TextoDoCampo(cs[1])
    ELSE TextoDoCampo(Head(cs)) \o <<" ">> \o LinhaDosCampos(Tail(cs))

\* the amounts written on the line, left to right
RECURSIVE QuantiasDe(_)
QuantiasDe(cs) ==
    IF cs = <<>> THEN <<>>
    ELSE (IF Head(cs).tipo = "valor" THEN <<Head(cs).centavos>> ELSE <<>>)
         \o QuantiasDe(Tail(cs))

Passos == 0..MaxPassos

ArgsMargem ==
    [salario_base : {k * 100000 : k \in Passos},
     vencimentos_fixos : {k * 50000 : k \in Passos},
     descontos_obrigatorios : {k * 100000 : k \in Passos},
     valores_cartoes : {k * 10000 : k \in Passos}]

(***************************************************************************)
(* Individual analysis: upload a payslip, press Analisar                   *)
(***************************************************************************)

SemArgs == [salario_base |-> 0, vencimentos_fixos |-> 0, descontos_obrigatorios |-> 0, valores_cartoes |-> 0]

Init ==
    /\ pc = "inicio"
    /\ texto = <<>>
    /\ resultado = None
    /\ campos = <<>>
    /\ linha = <<>>
    /\ valores = <<>>
    /\ args = SemArgs
    /\ margem = None
    /\ lote = <<>>
    /\ df_resultados = None
    /\ erros = <<>>
    /\ entrada = <<>>
    /\ normalizado = <<>>

\* st.file_uploader hands over a payslip whose extracted text is t
Upload(t) ==
    /\ pc = "inicio"
    /\ pc' = "enviado"
    /\ texto' = t
    /\ UNCHANGED <<resultado, campos, linha, valores, args, margem, vars_lote, vars_norm>>

\* the Analisar button: the result is stored in the session when it is truthy
Analisar ==
    /\ pc = "enviado"
    /\ pc' = "analisado"
    /\ LET r == analisar_holerite_streamlit(texto, NomeArquivo)
       IN  resultado' = IF r = None THEN resultado ELSE r
    /\ UNCHANGED <<texto, campos, linha, valores, args, margem, vars_lote, vars_norm>>

Next ==
    \/ \E t \in Textos : Upload(t)
    \/ Analisar

Spec == Init /\ [][Next]_vars

(***************************************************************************)
(* Individual analysis of payslips made of border-case lines               *)
(***************************************************************************)

CatalogoBordas ==
    { <<" "," ">>,
      <<"S","T","A","R","C","A","R","D"," ","C","A","R","T","A","O"," ","E","M","P","R","E","S","A","R","I","A","L"," ","1","0","0",",","0","0">>,
      <<"S","T","A","R","C","A","R","D"," ","E","M","P","R","E","S","T","I","M","O"," ","C","O","N","S","I","G","N","A","D","O"," ","5","0","0",",","0","0">>,
      <<"B","M","G"," ","P","A","N"," ","C","A","R","T","A","O"," ","1","0",",","0","0">>,
      <<"B","M","G"," ","C","A","R","T"," ","1","0",",","0","0">>,
      <<"C","A","R","T","A","O"," ","A","V","U","L","S","O">>,
      <<"V","E","N","C","I","M","E","N","T","O","S"," ","4","5",",","0","0">>,
      <<"V","E","N","C","I","M","E","N","T","O","S"," ","1","2",",","5","0">>,
      <<"D","E","S","C","O","N","T","O","S"," ","7",",","2","5">>,
      <<"L","I","Q","U","I","D","O"," ","2",".","7","0","0",",","0","0">>,
      <<"L","I","Q","U","I","D","O"," ","3","8",",","2","5">>,
      <<"N","O","M","E">>,
      <<"M","A","T","R","I","C","U","L","A"," ","1","2","3","4","5","6">>,
      <<"M","A","T","R","I","C","U","L","A"," ","6","5","4","3","2","1">> }

TextosBordas == {JoinLinhas(ls) : ls \in SeqsUpTo(CatalogoBordas, MaxLinhas)}

NextBordas ==
    \/ \E t \in TextosBordas : Upload(t)
    \/ Analisar

SpecBordas == Init /\ [][NextBordas]_vars

(***************************************************************************)
(* The value parser applied to one line                                    *)
(***************************************************************************)

InitParser ==
    /\ pc = "linha"
    /\ texto = <<>>
    /\ resultado = None
    /\ campos \in SeqsUpTo(Campos, MaxCampos)
    /\ linha = LinhaDosCampos(campos)
    /\ valores = <<>>
    /\ args = SemArgs
    /\ margem = None
    /\ lote = <<>>
    /\ df_resultados = None
    /\ erros = <<>>
    /\ entrada = <<>>
    /\ normalizado = <<>>

Guardar(nome, valor) ==
    /\ pc = "linha"
    /\ nome \notin DOMAIN valores
    /\ valores' = valores @@ (nome :> valor)
    /\ UNCHANGED <<pc, texto, resultado, campos, linha, args, margem, vars_lote, vars_norm>>

ValoresLinha == Guardar("linha", extrair_valores_linha(linha))

ValoresVencimento == Guardar("vencimento", extrair_valores_vencimento(linha))

ValoresDesconto == Guardar("desconto", extrair_valores_desconto(linha))

NextParser == ValoresLinha \/ ValoresVencimento \/ ValoresDesconto

SpecParser == InitParser /\ [][NextParser]_vars

(***************************************************************************)
(* The margin calculator as the main analysis calls it                     *)
(***************************************************************************)

InitMargem ==
    /\ pc = "args"
    /\ texto = <<>>
    /\ resultado = None
    /\ campos = <<>>
    /\ linha = <<>>
    /\ valores = <<>>
    /\ args \in ArgsMargem
    /\ margem = None
    /\ lote = <<>>
    /\ df_resultados = None
    /\ erros = <<>>
    /\ entrada = <<>>
    /\ normalizado = <<>>

CalcularMargem ==
    /\ pc = "args"
    /\ pc' = "margem"
    /\ margem' = calcular_margem_disponivel(args.salario_base,
                     [total |-> args.vencimentos_fixos],
                     [total |-> args.descontos_obrigatorios],
                     [total |-> args.valores_cartoes], PercentualAnalise)
    /\ UNCHANGED <<texto, resultado, campos, linha, valores, args, vars_lote, vars_norm>>

NextMargem == CalcularMargem

SpecMargem == InitMargem /\ [][NextMargem]_vars

(***************************************************************************)
(* Individual analysis, one payslip after the other in the same session    *)
(***************************************************************************)

CatalogoSessao ==
    { <<" "," ">>, <<"I","N","S","S"," ","3","0","5",",","3","6">>, <<"B","M","G"," ","C","A","R","T","A","O"," ","1","0","0",",","0","0">>, <<"S","T","A","R","C","A","R","D"," ","C","A","R","T","A","O"," ","5","0",",","0","0">> }

TextosSessao == {JoinLinhas(ls) : ls \in SeqsUpTo(CatalogoSessao, MaxLinhas)}

\* the user puts another file in the uploader: the script runs again with the
\* new file and the session state as it was
TrocarArquivo(t) ==
    /\ pc \in {"enviado", "analisado"}
    /\ pc' = "enviado"
    /\ texto' = t
    /\ UNCHANGED <<resultado, campos, linha, valores, args, margem, vars_lote, vars_norm>>

NextSessao ==
    \/ \E t \in TextosSessao : Upload(t)
    \/ \E t \in TextosSessao : TrocarArquivo(t)
    \/ Analisar

SpecSessao == Init /\ [][NextSessao]_vars

(***************************************************************************)
(* Individual analysis of payslips made of salary, earnings and deduction  *)
(* lines                                                                   *)
(***************************************************************************)

CatalogoFolha ==
    { <<"V","E","N","C","I","M","E","N","T","O","S"," ","E","S","T","A","T","U","T","A","R","I","O","S"," ","2",".","5","0","0",",","0","0">>,
      <<"V","E","N","C","I","M","E","N","T","O"," ","E","S","T","A","T","U","T","A","R","I","O">>,
      <<"V","E","N","C","I","M","E","N","T","O"," ","B","A","S","E">>,
      <<"1",".","8","0","0",",","0","0"," ","2","0","0",",","0","0">>,
      <<"S","A","L","A","R","I","O"," ","B","A","S","E"," ","3",".","0","0","0",",","0","0">>,
      <<"S","A","L","A","R","I","O"," ","D","E","S","C","O","N","T","O"," ","5","0",",","0","0">>,
      <<"I","N","S","S"," ","1","0","0",",","0","0">>,
      <<"I","N","S","S"," ","5","0",",","0","0">>,
      <<"A","D","I","C","I","O","N","A","L"," ","T","E","M","P","O"," ","S","E","R","V","I","C","O"," ","1","2","0",",","0","0">>,
      <<"A","D","I","C","I","O","N","A","L"," ","T","E","M","P","O"," ","8","0",",","0","0">>,
      <<"I","N","S","A","L","U","B","R","I","D","A","D","E"," ","2","0","0",",","0","0">>,
      <<"A","T","I","V",".","E","X","T","R","A"," ","7","0",",","0","0">>,
      <<"P","E","R","I","C","U","L","O","S","I","D","A","D","E"," ","3","0","0",",","0","0">> }

\* payslips of three lines where the sources of the base salary stand in the
\* reverse order of their priorities
CenariosFolha ==
    { << <<"S","A","L","A","R","I","O"," ","B","A","S","E"," ","3",".","0","0","0",",","0","0">>, <<"V","E","N","C","I","M","E","N","T","O"," ","B","A","S","E">>, <<"1",".","8","0","0",",","0","0"," ","2","0","0",",","0","0">> >>,
      << <<"V","E","N","C","I","M","E","N","T","O"," ","B","A","S","E">>, <<"1",".","8","0","0",",","0","0"," ","2","0","0",",","0","0">>, <<"V","E","N","C","I","M","E","N","T","O","S"," ","E","S","T","A","T","U","T","A","R","I","O","S"," ","2",".","5","0","0",",","0","0">> >> }

TextosFolha ==
    {JoinLinhas(ls) : ls \in SeqsUpTo(CatalogoFolha, MaxLinhas) \cup CenariosFolha}

NextFolha ==
    \/ \E t \in TextosFolha : Upload(t)
    \/ Analisar

SpecFolha == Init /\ [][NextFolha]_vars

(***************************************************************************)
(* Batch analysis                                                          *)
(***************************************************************************)

\* one row of the DataFrame
Registro(res, tipo_oportunidade, descricao, status) ==
    [arquivo |-> res.arquivo,
     nome |-> res.info_financeira.nome,
     matricula |-> res.info_financeira.matricula,
     regime |-> res.regime,
     vencimentos |-> res.info_financeira.vencimentos_total,
     descontos |-> res.info_financeira.descontos_total,
     liquido |-> res.info_financeira.liquido,
     margem_disponivel |-> res.margem.margem_disponivel,
     margem_total |-> res.margem.margem_total,
     total_cartoes |-> res.margem.total_cartoes,
     percentual_utilizado |-> res.margem.percentual_utilizado,
     tipo_oportunidade |-> tipo_oportunidade,
     descricao |-> descricao,
     status |-> status]

\* for cartao in lista: resultados.append({...})
RECURSIVE RegistrosDaLista(_, _, _, _)
RegistrosDaLista(res, lista, tipo_oportunidade, status) ==
    IF lista = <<>> THEN <<>>
    ELSE <<Registro(res, tipo_oportunidade, Head(lista), status)>>
         \o RegistrosDaLista(res, Tail(lista), tipo_oportunidade, status)

\* the row added when the payslip has neither a known nor an unknown card line
RegistroSemOportunidade(res) ==
    IF res.cartoes_conhecidos = <<>> /\ res.cartoes_desconhecidos = <<>>
    THEN <<Registro(res, "NENHUMA", <<"S","e","m"," ","o","p","o","r","t","u","n","i","d","a","d","e","s"," ","i","d","e","n","t","i","f","i","c","a","d","a","s">>, "SEM OPORTUNIDADE")>>
    ELSE <<>>

\* the rows appended for a truthy result, in the order of the appends
RegistrosDoResultado(res) ==
    RegistrosDaLista(res, res.cartoes_conhecidos, "CONHECIDA", "OPORTUNIDADE CONFIRMADA")
    \o RegistrosDaLista(res, res.nossos_contratos, "NOSSOS CONTRATOS", "CLIENTE NOSSO")
    \o RegistrosDaLista(res, res.cartoes_desconhecidos, "PARA ESTUDAR", "VERIFICAR")
    \o RegistroSemOportunidade(res)

\* An uploaded file is [nome, leitura_falha, ilegivel, texto]: read() raises
\* when leitura_falha; both extractors raise on opening when ilegivel; texto is
\* what the pages give otherwise.

\* the text and the st.error calls of extrair_texto_pdf_pdfplumber
extrair_texto_pdf_pdfplumber(arquivo) ==
    IF arquivo.ilegivel
    THEN [texto |-> <<>>, erros |-> <<[mensagem |-> "Erro ao extrair com pdfplumber"]>>]
    ELSE [texto |-> arquivo.texto, erros |-> <<>>]

\* the text and the st.error calls of extrair_texto_pdf_pypdf2
extrair_texto_pdf_pypdf2(arquivo) ==
    IF arquivo.ilegivel
    THEN [texto |-> <<>>, erros |-> <<[mensagem |-> "Erro ao extrair com PyPDF2"]>>]
    ELSE [texto |-> arquivo.texto, erros |-> <<>>]

\* pdfplumber first, PyPDF2 when it gave a blank text
ExtracaoComPlumber(arquivo, plumber) ==
    IF Strip(plumber.texto) = <<>>
    THEN [texto |-> extrair_texto_pdf_pypdf2(arquivo).texto,
          erros |-> plumber.erros \o extrair_texto_pdf_pypdf2(arquivo).erros]
    ELSE plumber

extrair_texto_pdf(arquivo) == ExtracaoComPlumber(arquivo, extrair_texto_pdf_pdfplumber(arquivo))

\* the rows one iteration of the loop appends
RegistrosDaAnalise(res) == IF res = None THEN <<>> ELSE RegistrosDoResultado(res)

\* the rows with the card total of the row before them added to theirs, as a
\* total kept across the iterations would give
RECURSIVE ComTotalAnterior(_, _)
ComTotalAnterior(registros, anterior) ==
    IF registros = <<>> THEN <<>>
    ELSE <<[Head(registros) EXCEPT !.total_cartoes = @ + anterior]>>
         \o ComTotalAnterior(Tail(registros), anterior)

\* the try block with a card total that is not reset between the files
ResultadosComTotalAcumulado(resultados, arquivo) ==
    IF arquivo.leitura_falha THEN resultados
    ELSE resultados \o ComTotalAnterior(
             RegistrosDaAnalise(
                 analisar_holerite_streamlit(extrair_texto_pdf(arquivo).texto, arquivo.nome)),
             IF resultados = <<>> THEN 0 ELSE resultados[Len(resultados)].total_cartoes)

\* the body of the try block of one iteration, given the list so far
ResultadosComArquivo(resultados, arquivo) ==
    IF arquivo.leitura_falha THEN resultados
    ELSE resultados \o RegistrosDaAnalise(
             analisar_holerite_streamlit(extrair_texto_pdf(arquivo).texto, arquivo.nome))

\* the st.error calls of one iteration: those of the extraction, or that of the
\* except clause, which names the file
ErrosDoArquivo(arquivo) ==
    IF arquivo.leitura_falha
    THEN <<[mensagem |-> "Erro ao processar", arquivo |-> arquivo.nome]>>
    ELSE extrair_texto_pdf(arquivo).erros

\* the loop that stops at the first file whose reading raises
RECURSIVE LoteAteFalha(_, _, _)
LoteAteFalha(arquivos, resultados, avisos) ==
    IF arquivos = <<>> \/ Head(arquivos).leitura_falha
    THEN [resultados |-> resultados, erros |-> avisos]
    ELSE LoteAteFalha(Tail(arquivos), ResultadosComArquivo(resultados, Head(arquivos)),
                      avisos \o ErrosDoArquivo(Head(arquivos)))

\* for idx, arquivo_uploaded in enumerate(arquivos_uploaded), from the lists so far
RECURSIVE ProcessarArquivos(_, _, _)
ProcessarArquivos(arquivos, resultados, avisos) ==
    IF arquivos = <<>> THEN [resultados |-> resultados, erros |-> avisos]
    ELSE ProcessarArquivos(Tail(arquivos), ResultadosComArquivo(resultados, Head(arquivos)),
                           avisos \o ErrosDoArquivo(Head(arquivos)))

\* the rows of the DataFrame returned and the errors shown meanwhile
processar_multiplos_pdfs(arquivos_uploaded) == ProcessarArquivos(arquivos_uploaded, <<>>, <<>>)

MaxLote == 3

TextosDoLote ==
    { <<" "," ","\n">>,
      <<"I","N","S","S"," ","3","0","5",",","3","6","\n">>,
      <<"S","T","A","R","C","A","R","D"," ","C","A","R","T","A","O"," ","5","0",",","0","0","\n">>,
      <<"B","M","G"," ","C","A","R","T","A","O"," ","1","0","0",",","0","0","\n","C","A","R","T","A","O"," ","A","V","U","L","S","O"," ","3","0",",","0","0","\n">> }

\* the files a user may select, but for their names
Documentos ==
    {[leitura_falha |-> FALSE, ilegivel |-> FALSE, texto |-> t] : t \in TextosDoLote}
    \cup {[leitura_falha |-> TRUE, ilegivel |-> FALSE, texto |-> <<"I","N","S","S"," ","3","0","5",",","3","6","\n">>],
          [leitura_falha |-> FALSE, ilegivel |-> TRUE, texto |-> <<>>]}

NomeDoArquivo(i) == "holerite" \o ToString(i) \o ".pdf"

\* a selection of files, named after their position
ComNomes(ds) ==
    [i \in 1..Len(ds) |-> [nome |-> NomeDoArquivo(i), leitura_falha |-> ds[i].leitura_falha,
                           ilegivel |-> ds[i].ilegivel, texto |-> ds[i].texto]]

Lotes == {ComNomes(ds) : ds \in SeqsUpTo(Documentos, MaxLote)}

\* st.file_uploader with accept_multiple_files hands over the selected files
UploadLote(arquivos) ==
    /\ pc = "inicio"
    /\ arquivos # <<>>
    /\ pc' = "lote_enviado"
    /\ lote' = arquivos
    /\ UNCHANGED <<texto, resultado, campos, linha, valores, args, margem, df_resultados, erros, vars_norm>>

\* the Processar Todos button
ProcessarTodos ==
    /\ pc = "lote_enviado"
    /\ pc' = "lote_processado"
    /\ df_resultados' = processar_multiplos_pdfs(lote).resultados
    /\ erros' = processar_multiplos_pdfs(lote).erros
    /\ UNCHANGED <<texto, resultado, campos, linha, valores, args, margem, lote, vars_norm>>

NextLote ==
    \/ \E arquivos \in Lotes : UploadLote(arquivos)
    \/ ProcessarTodos

SpecLote == Init /\ [][NextLote]_vars

(***************************************************************************)
(* The normaliser, called on a text and again on what it returned          *)
(***************************************************************************)

MaxTexto == 3

\* letters with and without an upper-case form, accents of the dict and
\* outside it, a digit and a blank; "kra" is the letter U+0138, which is
\* lower-case and has no upper-case form
Alfabeto == {"a", "Z", "c,", "C,", "a~", "O^", "u:", "kra", "1", " "}

InitNormalizador ==
    /\ pc = "texto"
    /\ texto = <<>>
    /\ resultado = None
    /\ campos = <<>>
    /\ linha = <<>>
    /\ valores = <<>>
    /\ args = SemArgs
    /\ margem = None
    /\ lote = <<>>
    /\ df_resultados = None
    /\ erros = <<>>
    /\ entrada \in SeqsUpTo(Alfabeto, MaxTexto)
    /\ normalizado = <<>>

\* normalizar_texto(texto)
Normalizar ==
    /\ pc = "texto"
    /\ pc' = "normalizado"
    /\ normalizado' = normalizar_texto(entrada)
    /\ UNCHANGED <<texto, resultado, campos, linha, valores, args, margem, vars_lote, entrada>>

\* normalizar_texto of a text that normalizar_texto returned, as section 3 of
\* identificar_cartoes_credito does with the lines of the normalised text
NormalizarDeNovo ==
    /\ pc = "normalizado"
    /\ pc' = "renormalizado"
    /\ normalizado' = normalizar_texto(normalizado)
    /\ UNCHANGED <<texto, resultado, campos, linha, valores, args, margem, vars_lote, entrada>>

NextNormalizador == Normalizar \/ NormalizarDeNovo

SpecNormalizador == InitNormalizador /\ [][NextNormalizador]_vars

(***************************************************************************)
(* Batch analysis of payslips that differ in what the margin is made of    *)
(***************************************************************************)

MaxPar == 2

TextosDaMargem ==
    { <<" "," ","\n">>,
      <<"S","A","L","A","R","I","O"," ","B","A","S","E"," ","3",".","0","0","0",",","0","0","\n">>,
      <<"I","N","S","S"," ","3","0","5",",","3","6","\n">>,
      <<"V","E","N","C","I","M","E","N","T","O","S"," ","3",".","0","0","0",",","0","0","\n">>,
      <<"B","M","G"," ","C","A","R","T","A","O"," ","1","0","0",",","0","0","\n">>,
      <<"P","A","N"," ","C","A","R","T","A","O"," ","1","0","0",",","0","0","\n">>,
      <<"S","A","L","A","R","I","O"," ","B","A","S","E"," ","3",".","0","0","0",",","0","0","\n","B","M","G"," ","C","A","R","T","A","O"," ","1","0","0",",","0","0","\n">>,
      <<"S","A","L","A","R","I","O"," ","B","A","S","E"," ","3",".","0","0","0",",","0","0","\n","I","N","S","S"," ","3","0","5",",","3","6","\n">> }

DocumentosDaMargem ==
    {[leitura_falha |-> FALSE, ilegivel |-> FALSE, texto |-> t] : t \in TextosDaMargem}

Pares == {ComNomes(ds) : ds \in SeqsUpTo(DocumentosDaMargem, MaxPar)}

NextPares ==
    \/ \E arquivos \in Pares : UploadLote(arquivos)
    \/ ProcessarTodos

SpecPares == Init /\ [][NextPares]_vars

(***************************************************************************)
(* Properties                                                              *)
(***************************************************************************)

\* the analysis of the uploaded payslip returned a result bundle
TemResultado == pc = "analisado" /\ "arquivo" \in DOMAIN resultado

Baldes ==
    <<resultado.nossos_contratos, resultado.cartoes_conhecidos,
      resultado.cartoes_desconhecidos>>

LinhasNormalizadas == Split(normalizar_texto(texto))

LinhasBrutas == Split(texto)

TemEmprestimo(l) == \E termo \in TERMOS_EXCLUSAO : Contains(l, termo)

\* C1: a line whose normalised form holds an exclusion (loan) term is in none
\* of the three card buckets, whatever brand or card keyword it also names:
\* no bucket entry holds a loan term, every entry is the trimmed text of a
\* line without one, and a loan line is no entry (its trimmed text is one only
\* when a line without a loan term has the same trimmed text).
C1_LoanLineInNoBucket ==
    TemResultado =>
        \A b \in 1..3 :
            /\ \A e \in Range(Baldes[b]) :
                  /\ ~TemEmprestimo(e)
                  /\ \E l \in Range(LinhasNormalizadas) : Strip(l) = e /\ ~TemEmprestimo(l)
            /\ \A l \in Range(LinhasNormalizadas) :
                  TemEmprestimo(l) =>
                      /\ l \notin Range(Baldes[b])
                      /\ Strip(l) \in Range(Baldes[b]) =>
                            \E o \in Range(LinhasNormalizadas) :
                                Strip(o) = Strip(l) /\ ~TemEmprestimo(o)

\* a loan line naming an own brand with a card keyword, beside a card line that
\* was classified
C1_Witness ==
    /\ TemResultado
    /\ \E l \in Range(LinhasNormalizadas) :
          /\ TemEmprestimo(l)
          /\ Contains(l, <<"S","T","A","R","C","A","R","D">>)
          /\ ContainsAny(l, KwNossos)
    /\ resultado.nossos_contratos # <<>>

\* C2: the three buckets are pairwise disjoint: no trimmed line text is in
\* two of them.
C2_BucketsPairwiseDisjoint ==
    TemResultado =>
        \A a, b \in 1..3 : a < b => Range(Baldes[a]) \cap Range(Baldes[b]) = {}

\* the deduction amounts of a set of lines, added up
RECURSIVE SomaDescontos(_)
SomaDescontos(S) ==
    IF S = {} THEN 0
    ELSE LET l == CHOOSE x \in S : TRUE
         IN  extrair_valores_desconto(l) + SomaDescontos(S \ {l})

LinhasClassificadas == Range(Baldes[1]) \cup Range(Baldes[2]) \cup Range(Baldes[3])

\* C5: the committed card total of the margin is the sum of the deduction
\* amounts of the classified card lines of the payslip, each line once; for the
\* end-to-end payslip the only classified line is the competitor line
\* BRADESCO CARTAO 150,00 and the committed total is 150.00.
C5_CommittedIsSumOfCardLines ==
    TemResultado =>
        /\ resultado.valores_cartoes.total = SomaDescontos(LinhasClassificadas)
        /\ resultado.margem.total_cartoes = resultado.valores_cartoes.total
        /\ texto = Cenario =>
              /\ Baldes = << <<>>, << <<"B","R","A","D","E","S","C","O"," ","C","A","R","T","A","O"," ","1","5","0",",","0","0">> >>, <<>> >>
              /\ resultado.valores_cartoes.conhecidos
                    = << [descricao |-> <<"B","R","A","D","E","S","C","O"," ","C","A","R","T","A","O"," ","1","5","0",",","0","0">>, valor |-> 15000] >>
              /\ resultado.margem.total_cartoes = 15000

\* the only line of the payslip holding `com` and not `sem`, with one amount
LinhaUnica(i, com, sem) ==
    /\ Contains(LinhasBrutas[i], com) /\ ~Contains(LinhasBrutas[i], sem)
    /\ Len(FindAllValores(LinhasBrutas[i])) = 1
    /\ \A j \in 1..Len(LinhasBrutas) :
          (Contains(LinhasBrutas[j], com) /\ ~Contains(LinhasBrutas[j], sem)) => j = i

\* C6: the gross total is the value parser's reading of the amount on the
\* VENCIMENTOS line (and the deductions total of the one on the DESCONTOS
\* line), thousands separators included: VENCIMENTOS 3.000,00 gives 3000.00.
C6_TotalsAreParsedAmounts ==
    TemResultado =>
        \A i \in 1..Len(LinhasBrutas) :
            /\ LinhaUnica(i, <<"V","E","N","C","I","M","E","N","T","O","S">>, <<"D","E","S","C","O","N","T","O","S">>) =>
                  resultado.info_financeira.vencimentos_total
                      = extrair_valores_linha(LinhasBrutas[i])
            /\ LinhaUnica(i, <<"D","E","S","C","O","N","T","O","S">>, <<"V","E","N","C","I","M","E","N","T","O","S">>) =>
                  resultado.info_financeira.descontos_total
                      = extrair_valores_linha(LinhasBrutas[i])

TemTermo(termos) == \E termo \in termos : Contains(normalizar_texto(texto), termo)

\* C7: exactly one regime label, the first in the order ESTATUTARIO (or
\* ESTATUARIO), CLT, COMISSIONADO, TEMPORARIO whose term occurs in the
\* normalised text, else unidentified.
C7_RegimeByPriority ==
    TemResultado =>
        LET e == TemTermo({ <<"E","S","T","A","T","U","T","A","R","I","O">>, <<"E","S","T","A","T","U","A","R","I","O">> })
            c == TemTermo({ <<"C","L","T">> })
            m == TemTermo({ <<"C","O","M","I","S","S","I","O","N","A","D","O">> })
            t == TemTermo({ <<"T","E","M","P","O","R","A","R","I","O">> })
        IN  /\ resultado.regime \in
                  {"ESTATUTARIO", "CLT", "COMISSIONADO", "TEMPORARIO", "NAO IDENTIFICADO"}
            /\ resultado.regime = "ESTATUTARIO" <=> e
            /\ resultado.regime = "CLT" <=> ~e /\ c
            /\ resultado.regime = "COMISSIONADO" <=> ~e /\ ~c /\ m
            /\ resultado.regime = "TEMPORARIO" <=> ~e /\ ~c /\ ~m /\ t

\* a payslip naming both CLT and ESTATUTARIO, CLT first
C7_Witness ==
    /\ TemResultado
    /\ LET n == normalizar_texto(texto)
           i == Min({k \in 1..Len(n) : Contains(SubSeq(n, 1, k), <<"C","L","T">>)} \cup {Len(n) + 1})
       IN  i <= Len(n) /\ Contains(SubSeq(n, i, Len(n)), <<"E","S","T","A","T","U","T","A","R","I","O">>)
    /\ resultado.regime = "ESTATUTARIO"

\* the margin calculator returned its dict for the drawn totals
MargemCalculada == pc = "margem" /\ "base_calculo" \in DOMAIN margem

BaseDosArgs == args.salario_base + args.vencimentos_fixos - args.descontos_obrigatorios

\* C3: the card ceiling of the main analysis is 10% of the base, the
\* availability the ceiling less the committed total, the utilisation
\* committed / ceiling x 100: base 3000.00 and committed 100.00 give ceiling
\* 300.00, availability 200.00, utilisation 33.33.
C3_CardCeilingIsTenPercent ==
    pc = "margem" =>
        /\ "base_calculo" \in DOMAIN margem
        /\ margem.margem_total = BaseDosArgs * 10
        /\ margem.margem_disponivel = BaseDosArgs * 10 - args.valores_cartoes * 100
        /\ (BaseDosArgs = 300000 /\ args.valores_cartoes = 10000) =>
              /\ margem.margem_total = 3000000
              /\ margem.margem_disponivel = 2000000
              /\ margem.percentual_utilizado = 3333

CamposNumericos == DOMAIN margem \ {"tem_margem", "excecao"}

\* C4: the margin result carries a loan ceiling of 35% and a total ceiling of
\* 45% of the base, with the loan and total availabilities beside the card's.
C4_TieredCeilings ==
    pc = "margem" =>
        /\ \E f \in CamposNumericos : margem[f] = BaseDosArgs * 35
        /\ \E f \in CamposNumericos : margem[f] = BaseDosArgs * 45

\* C10: with a base, and so a ceiling, that is not positive the utilisation is
\* exactly 0 and nothing is divided (no ZeroDivisionError), for every
\* combination of salary, fixed earnings, mandatory deductions and card total.
C10_NoDivisionWithoutCeiling ==
    (pc = "margem" /\ BaseDosArgs <= 0) =>
        /\ "excecao" \notin DOMAIN margem
        /\ margem.percentual_utilizado = 0
        /\ margem.margem_total <= 0

\* a zero base with card debt: the quotient would divide by zero
C10_Witness ==
    /\ MargemCalculada
    /\ BaseDosArgs = 0
    /\ args.descontos_obrigatorios > 0
    /\ args.valores_cartoes > 0
    /\ margem.percentual_utilizado = 0

\* the amounts the fields of the line hold
Quantidade == Len(QuantiasDe(campos))

UltimaQuantia == IF Quantidade = 0 THEN 0 ELSE QuantiasDe(campos)[Quantidade]

\* C8: the last-token policy (extrair_valores_desconto, extrair_valores_linha)
\* gives the value of the rightmost amount written on the line, thousands
\* separators removed and the decimal comma converted, 0 for a line without
\* an amount, and never raises.
C8_LastTokenPolicy ==
    /\ \A n \in {"linha", "desconto"} \cap DOMAIN valores :
          valores[n] = UltimaQuantia /\ valores[n] # ValueError
    /\ (linha = <<"D","E","S","C","O","N","T","O"," ","C","A","R","T","A","O"," ","1",".","2","3","4",",","5","6">> /\ "desconto" \in DOMAIN valores) =>
          valores["desconto"] = 123456
    /\ (linha = <<"S","E","M"," ","N","U","M","E","R","O">> /\ "desconto" \in DOMAIN valores) =>
          valores["desconto"] = 0

\* two different amounts on a line, the last one with thousands separators
C8_Witness ==
    /\ {"linha", "desconto"} \subseteq DOMAIN valores
    /\ Quantidade >= 2
    /\ QuantiasDe(campos)[1] # UltimaQuantia
    /\ campos[Len(campos)].tipo = "valor" /\ campos[Len(campos)].milhar
    /\ valores["desconto"] = 123456

\* C9: the second-to-last-token policy (extrair_valores_vencimento) gives the
\* penultimate amount of a line with two or more, the only amount of a line
\* with one (the last-token result), and 0 for a line with none.
C9_PenultimateTokenPolicy ==
    "vencimento" \in DOMAIN valores =>
        /\ valores["vencimento"] =
              IF Quantidade >= 2 THEN QuantiasDe(campos)[Quantidade - 1]
              ELSE IF Quantidade = 1 THEN QuantiasDe(campos)[1]
              ELSE 0
        /\ (Quantidade = 1 /\ "desconto" \in DOMAIN valores) =>
              valores["vencimento"] = valores["desconto"]

\* three amounts, the middle one unlike its neighbours
C9_Witness ==
    /\ "vencimento" \in DOMAIN valores
    /\ Quantidade = 3
    /\ QuantiasDe(campos)[2] # QuantiasDe(campos)[1]
    /\ QuantiasDe(campos)[2] # QuantiasDe(campos)[3]
    /\ valores["vencimento"] = QuantiasDe(campos)[2]

\* the text of the uploaded payslip is empty or holds blanks only
TextoEmBranco == \A i \in 1..Len(texto) : texto[i] \in Whitespace

CamposDaAnalise ==
    {"arquivo", "regime", "info_financeira", "nossos_contratos", "cartoes_conhecidos",
     "cartoes_desconhecidos", "descontos_fixos", "descontos_obrigatorios",
     "vencimentos_fixos", "valores_cartoes", "margem", "texto_completo"}

\* C11: the analysis of an empty or blank text returns None, with no regime,
\* field, classification or margin in it and nothing stored in the session;
\* the analysis of any other text returns the whole result bundle.
C11_NoneOnBlankText ==
    pc = "analisado" =>
        /\ TextoEmBranco =>
              /\ analisar_holerite_streamlit(texto, NomeArquivo) = None
              /\ resultado = None
              /\ DOMAIN resultado \cap CamposDaAnalise = {}
        /\ ~TextoEmBranco =>
              /\ DOMAIN resultado = CamposDaAnalise
              /\ resultado = analisar_holerite_streamlit(texto, NomeArquivo)
              /\ resultado.texto_completo = texto

\* a payslip of blank lines was analysed
C11_Witness ==
    /\ pc = "analisado"
    /\ texto # <<>>
    /\ TextoEmBranco
    /\ resultado = None

\* the rows a file gives when it is the only one of the batch
RegistrosSozinho(arquivo) == processar_multiplos_pdfs(<<arquivo>>).resultados

RECURSIVE RegistrosUmPorUm(_)
RegistrosUmPorUm(arquivos) ==
    IF arquivos = <<>> THEN <<>>
    ELSE RegistrosSozinho(Head(arquivos)) \o RegistrosUmPorUm(Tail(arquivos))

\* the rows of the DataFrame that carry the name of a file
RegistrosDoArquivo(nome) == SelectSeq(df_resultados, LAMBDA r : r.arquivo = nome)

\* the file gives no text: it cannot be opened, or its pages are blank
SemTexto(arquivo) == arquivo.ilegivel \/ Strip(arquivo.texto) = <<>>

\* the DataFrame starts with these rows
ComecaPor(registros) ==
    /\ Len(registros) <= Len(df_resultados)
    /\ SubSeq(df_resultados, 1, Len(registros)) = registros

\* C12: a file whose reading raises, or whose text is empty, does not stop the
\* batch: the rows are those every file gives alone, in the order of the files;
\* such a file gives no row; and the rows appended up to any file are kept as
\* they were by the files after it.
C12_FaultDoesNotAbortBatch ==
    pc = "lote_processado" =>
        /\ df_resultados = RegistrosUmPorUm(lote)
        /\ \A i \in 1..Len(lote) :
              /\ RegistrosDoArquivo(lote[i].nome) = RegistrosSozinho(lote[i])
              /\ (lote[i].leitura_falha \/ SemTexto(lote[i]))
                     => RegistrosDoArquivo(lote[i].nome) = <<>>
              /\ ComecaPor(processar_multiplos_pdfs(SubSeq(lote, 1, i)).resultados)

\* a batch of three files: the reading of the second raises, the first and the
\* third have rows
C12_Witness ==
    /\ pc = "lote_processado"
    /\ Len(lote) = 3
    /\ lote[2].leitura_falha
    /\ RegistrosDoArquivo(lote[1].nome) # <<>>
    /\ RegistrosDoArquivo(lote[2].nome) = <<>>
    /\ RegistrosDoArquivo(lote[3].nome) # <<>>
    /\ [mensagem |-> "Erro ao processar", arquivo |-> lote[2].nome] \in Range(erros)

\* the file was read, gave no text and so has no row in the DataFrame
OmitidoSemTexto(arquivo) ==
    /\ ~arquivo.leitura_falha
    /\ SemTexto(arquivo)
    /\ RegistrosDoArquivo(arquivo.nome) = <<>>

\* C13: every file that has no row because its text is empty is reported as
\* left out, by an error that names the file.
C13_EmptyTextIsReported ==
    pc = "lote_processado" =>
        \A i \in 1..Len(lote) :
            OmitidoSemTexto(lote[i]) =>
                \E e \in Range(erros) : "arquivo" \in DOMAIN e /\ e.arquivo = lote[i].nome

\* the number of lines of the file that the classification puts in a category,
\* counted once per category
LinhasClassificadasDe(cartoes) ==
    Len(cartoes.nossos_contratos) + Len(cartoes.conhecidos) + Len(cartoes.desconhecidos)

ClassificadasDoArquivo(arquivo) ==
    IF arquivo.leitura_falha \/ SemTexto(arquivo) THEN 0
    ELSE LinhasClassificadasDe(identificar_cartoes_credito(arquivo.texto))

\* C14: the DataFrame has one row for every classified line of every file and
\* no other row: the rows of a file are as many as its classified lines, and
\* every row describes one of them under its category.
C14_OneRecordPerClassifiedLine ==
    pc = "lote_processado" =>
        \A i \in 1..Len(lote) :
            /\ Len(RegistrosDoArquivo(lote[i].nome)) = ClassificadasDoArquivo(lote[i])
            /\ \A r \in Range(RegistrosDoArquivo(lote[i].nome)) :
                  r.tipo_oportunidade \in {"CONHECIDA", "NOSSOS CONTRATOS", "PARA ESTUDAR"}

\* the keys of the result that hold no list of lines
CamposSemLinhas ==
    {"arquivo", "regime", "info_financeira", "descontos_fixos", "descontos_obrigatorios",
     "vencimentos_fixos", "valores_cartoes", "margem", "texto_completo"}

\* the lists of lines of the result other than the three card buckets
BaldesDeEmprestimo == (DOMAIN resultado \ CamposSemLinhas) \ {"nossos_contratos", "cartoes_conhecidos", "cartoes_desconhecidos"}

\* C15: every line with an exclusion term is in the result under a loan
\* category: the result has four buckets of lines, the fourth holding the
\* trimmed text of every such line, as STARCARD EMPRESTIMO CONSIGNADO 500,00.
C15_LoanLinesInLoanBucket ==
    TemResultado =>
        /\ \A i \in 1..Len(LinhasNormalizadas) :
              TemEmprestimo(LinhasNormalizadas[i]) =>
                  \E k \in BaldesDeEmprestimo : Strip(LinhasBrutas[i]) \in Range(resultado[k])
        /\ Cardinality(DOMAIN resultado \ CamposSemLinhas) = 4

\* C16: no bucket holds the same trimmed line text twice, whether the line is
\* repeated in the payslip or names several brands of the vocabulary of the
\* bucket.
C16_NoDuplicateInBucket ==
    TemResultado =>
        \A b \in 1..3 : \A i, j \in 1..Len(Baldes[b]) :
            Baldes[b][i] = Baldes[b][j] => i = j

\* a payslip with the same line twice, naming the brands BMG and PAN, whose
\* bucket holds it once
C16_Witness ==
    /\ TemResultado
    /\ Len(LinhasBrutas) >= 2
    /\ LinhasBrutas[1] = <<"B","M","G"," ","P","A","N"," ","C","A","R","T","A","O"," ","1","0",",","0","0">>
    /\ LinhasBrutas[2] = LinhasBrutas[1]
    /\ resultado.cartoes_conhecidos = <<LinhasBrutas[1]>>

\* the entries of extrair_valores_cartoes for a bucket: one for every line of
\* the bucket, in its order, with the line as description
UmaEntradaPorLinha(balde, entradas) ==
    /\ Len(entradas) = Len(balde)
    /\ \A i \in 1..Len(balde) :
          /\ entradas[i].descricao = balde[i]
          /\ entradas[i].valor = extrair_valores_desconto(balde[i])

\* C17: every classified line is in the list of its category in the output of
\* extrair_valores_cartoes, a line without a value with the amount 0, so that
\* every list is as long as the bucket it comes from.
C17_ValuelessLineKept ==
    TemResultado =>
        /\ UmaEntradaPorLinha(resultado.nossos_contratos, resultado.valores_cartoes.nossos_contratos)
        /\ UmaEntradaPorLinha(resultado.cartoes_conhecidos, resultado.valores_cartoes.conhecidos)
        /\ UmaEntradaPorLinha(resultado.cartoes_desconhecidos, resultado.valores_cartoes.desconhecidos)

CamposDaInfo == {"nome", "matricula", "vencimentos_total", "descontos_total", "liquido"}

\* the fields as line i of the payslip leaves them, from the defaults
InfoDaLinha(i) == InfoLinha(InfoInicial, LinhasBrutas, i)

\* line i gives a value for the field
Fornece(campo, i) == InfoDaLinha(i)[campo] # InfoInicial[campo]

\* C18: for each of name, registration, gross total, deductions total and net
\* pay, the value is the one of the first line of the payslip that gives the
\* field; the lines after it do not change it.
C18_FirstMatchWins ==
    TemResultado =>
        \A campo \in CamposDaInfo : \A i \in 1..Len(LinhasBrutas) :
            (Fornece(campo, i) /\ \A j \in 1..(i - 1) : ~Fornece(campo, j))
                => resultado.info_financeira[campo] = InfoDaLinha(i)[campo]

\* C19: a field no line gives holds its default: the empty text for name and
\* registration, the number 0 for gross total, deductions total and net pay;
\* the three money fields are numbers in every result.
C19_DefaultsAreNumbers ==
    TemResultado =>
        /\ resultado.info_financeira.liquido.tipo = "float"
        /\ resultado.info_financeira.vencimentos_total \in Int
        /\ resultado.info_financeira.descontos_total \in Int
        /\ \A campo \in CamposDaInfo :
              (\A i \in 1..Len(LinhasBrutas) : ~Fornece(campo, i))
                  => resultado.info_financeira[campo]
                         = (CASE campo \in {"nome", "matricula"} -> <<>>
                              [] campo = "liquido" -> LiquidoFloat(0)
                              [] OTHER -> 0)

\* the word stands alone on the line: at its ends or between blanks
PalavraIsolada(l, palavra) ==
    \E i \in 0..(Len(l) - Len(palavra)) :
        /\ \A j \in 1..Len(palavra) : l[i + j] = palavra[j]
        /\ i = 0 \/ l[i] = " "
        /\ i + Len(palavra) = Len(l) \/ l[i + Len(palavra) + 1] = " "

\* the line names a loan: a long term anywhere, or EMP or CP as a word
NomeiaEmprestimo(l) ==
    \/ ContainsAny(l, { <<"E","M","P","R","E","S","T","I","M","O">>, <<"C","O","N","S","I","G","N","A","D","O">>, <<"F","I","N","A","N","C","I","A","M","E","N","T","O">>, <<"C","R","E","D","I","T","O"," ","P","E","S","S","O","A","L">> })
    \/ PalavraIsolada(l, <<"E","M","P">>)
    \/ PalavraIsolada(l, <<"C","P">>)

\* C20: the short tokens EMP and CP exclude a line only as words of their own:
\* a line is skipped as a loan line exactly when it names a loan, and a card
\* line that does not, as STARCARD CARTAO EMPRESARIAL 100,00, is in a bucket.
C20_ShortTokensAreWords ==
    TemResultado =>
        \A i \in 1..Len(LinhasNormalizadas) :
            /\ TemTermoExclusao(LinhasNormalizadas[i]) <=> NomeiaEmprestimo(LinhasNormalizadas[i])
            /\ LinhasNormalizadas[i] = <<"S","T","A","R","C","A","R","D"," ","C","A","R","T","A","O"," ","E","M","P","R","E","S","A","R","I","A","L"," ","1","0","0",",","0","0">>
                   => LinhasNormalizadas[i] \in LinhasClassificadas

\* the line names an own product beside a keyword of section 1
RegraNossos(l) ==
    (\E p \in Range(NOSSOS_PRODUTOS) : Contains(l, p)) /\ ContainsAny(l, KwNossos)

\* the line names a known competitor beside a keyword of section 2
RegraConhecidos(l) ==
    (\E c \in Range(CARTOES_CONHECIDOS) : Contains(l, c)) /\ ContainsAny(l, KwConhecidos)

\* the line has a card keyword of section 3 and names no brand
RegraDesconhecidos(l) ==
    /\ ContainsAny(l, KwDesconhecidos)
    /\ ~\E p \in Range(NOSSOS_PRODUTOS) : Contains(l, p)
    /\ ~\E c \in Range(CARTOES_CONHECIDOS) : Contains(l, c)

\* C21: no card line is lost: a line that is not blank, has no exclusion term
\* and holds a generic card keyword (CARTAO, CART, CRED, CREDITO, CART.) is in
\* at least one of the three buckets, and so is every such line that meets the
\* rule of a section; a line in no bucket is blank, a loan line, or meets no rule.
C21_NoCardLineLost ==
    TemResultado =>
        \A i \in 1..Len(LinhasNormalizadas) :
            (Strip(LinhasNormalizadas[i]) # <<>> /\ ~TemEmprestimo(LinhasNormalizadas[i]))
            => /\ ContainsAny(LinhasNormalizadas[i], KwDesconhecidos)
                      => Strip(LinhasNormalizadas[i]) \in LinhasClassificadas
               /\ Strip(LinhasNormalizadas[i]) \notin LinhasClassificadas
                      => /\ ~RegraNossos(LinhasNormalizadas[i])
                         /\ ~RegraConhecidos(LinhasNormalizadas[i])
                         /\ ~RegraDesconhecidos(LinhasNormalizadas[i])

\* a payslip with a card line without brand and without value, kept as unknown,
\* beside a line that meets no rule and is in no bucket
C21_Witness ==
    /\ TemResultado
    /\ Len(LinhasNormalizadas) >= 2
    /\ LinhasNormalizadas[1] = <<"C","A","R","T","A","O"," ","A","V","U","L","S","O">>
    /\ LinhasNormalizadas[2] = <<"V","E","N","C","I","M","E","N","T","O","S"," ","4","5",",","0","0">>
    /\ resultado.cartoes_desconhecidos = << <<"C","A","R","T","A","O"," ","A","V","U","L","S","O">> >>
    /\ LinhasNormalizadas[2] \notin LinhasClassificadas

\* the accented letters of the dict and their lower-case forms
AcentosListados ==
    {"A'", "A!", "A~", "A^", "E'", "E^", "I'", "O'", "O~", "O^", "U'", "C,",
     "a'", "a!", "a~", "a^", "e'", "e^", "i'", "o'", "o~", "o^", "u'", "c,"}

\* the lower-case letters among the characters of the texts
Minusculas ==
    {"a", "b", "c", "d", "e", "f", "g", "h", "i", "j", "k", "l", "m", "n", "o", "p", "q",
     "r", "s", "t", "u", "v", "w", "x", "y", "z",
     "a'", "a!", "a~", "a^", "e'", "e^", "i'", "o'", "o~", "o^", "u'", "c,", "u:", "kra"}

\* the text was normalised, once or twice
FoiNormalizado == pc \in {"normalizado", "renormalizado"}

\* C22, as the specification states it: the normaliser is idempotent and what
\* it returns holds no lower-case letter at all and no listed accented letter.
C22_NoLowercaseAtAll ==
    FoiNormalizado =>
        /\ normalizar_texto(normalizar_texto(entrada)) = normalizar_texto(entrada)
        /\ \A i \in 1..Len(normalizado) :
              normalizado[i] \notin Minusculas \cup AcentosListados

\* C22, as the code has it: the normaliser returns a text for every text,
\* normalising twice gives what normalising once gives, and the text returned
\* holds no listed accented letter and no lower-case letter that has an
\* upper-case form; a lower-case letter without one stays as it is.
C22_IdempotentUpperNoAccent ==
    FoiNormalizado =>
        /\ normalizado = normalizar_texto(entrada)
        /\ normalizar_texto(normalizar_texto(entrada)) = normalizar_texto(entrada)
        /\ \A i \in 1..Len(normalizado) :
              /\ normalizado[i] \notin AcentosListados
              /\ normalizado[i] \in Minusculas => normalizado[i] = "kra"

\* a text with a lower-case accented letter of the dict and the letter without
\* upper-case form was normalised twice: the first lost its accent and case,
\* the second stayed
C22_Witness ==
    /\ pc = "renormalizado"
    /\ Len(entrada) = 3
    /\ entrada[1] = "a~" /\ entrada[2] = "kra" /\ entrada[3] = "c,"
    /\ normalizado = <<"A", "kra", "C">>

\* the file has rows in the DataFrame
TemRegistros(i) == RegistrosDoArquivo(lote[i].nome) # <<>>

\* the margin figures of the rows of a file: ceiling (and with it the base of
\* the calculation, its quotient by the percentage), committed total,
\* availability and use
MargemDoRegistro(r) ==
    [margem_total |-> r.margem_total, total_cartoes |-> r.total_cartoes,
     margem_disponivel |-> r.margem_disponivel,
     percentual_utilizado |-> r.percentual_utilizado]

MargemDoArquivo(i) == MargemDoRegistro(RegistrosDoArquivo(lote[i].nome)[1])

\* the fields of the financial summary of the rows of a file
SumarioDoRegistro(r) ==
    [nome |-> r.nome, matricula |-> r.matricula, vencimentos |-> r.vencimentos,
     descontos |-> r.descontos, liquido |-> r.liquido]

SumarioDoArquivo(i) == SumarioDoRegistro(RegistrosDoArquivo(lote[i].nome)[1])

\* what calcular_margem_disponivel is called with for the text of a file
EntradasDaMargem(t) ==
    [salario_base |-> extrair_salario_bruto(t),
     vencimentos_fixos |-> extrair_vencimentos_fixos(t).total,
     descontos_obrigatorios |-> extrair_descontos_obrigatorios(t).total,
     valores_cartoes |-> extrair_valores_cartoes(t, identificar_cartoes_credito(t)).total]

LinhasOriginais == {Strip(LinhasBrutas[i]) : i \in 1..Len(LinhasBrutas)}

\* C24: the text kept for a classified line is the line of the payslip as it
\* was uploaded, trimmed, with its letter case and its accents, and not the
\* normalised line.
C24_BucketsKeepOriginalText ==
    TemResultado => \A b \in 1..3 : \A k \in 1..Len(Baldes[b]) : Baldes[b][k] \in LinhasOriginais

\* C25: the record of the mandatory deductions has total = inss + irrf +
\* previdencia, and the record of the fixed earnings has total =
\* adicional_tempo_servico + sexta_parte + the values of outros_fixos, also
\* when several lines of the payslip are of the same category.
C25_TotalsAreSumsOfParts ==
    TemResultado =>
        /\ resultado.descontos_obrigatorios.total
               = resultado.descontos_obrigatorios.inss + resultado.descontos_obrigatorios.irrf
                 + resultado.descontos_obrigatorios.previdencia
        /\ resultado.vencimentos_fixos.total
               = resultado.vencimentos_fixos.adicional_tempo_servico
                 + resultado.vencimentos_fixos.sexta_parte
                 + SomaValores(resultado.vencimentos_fixos.outros_fixos)

\* the lines that are a source of the base salary, by priority
FontesP1 ==
    {i \in 1..Len(LinhasBrutas) :
        /\ \/ Contains(LinhasNormalizadas[i], <<"V","E","N","C","I","M","E","N","T","O","S"," ","E","S","T","A","T","U","T","A","R","I","O","S">>)
           \/ Contains(LinhasNormalizadas[i], <<"V","E","N","C","I","M","E","N","T","O"," ","E","S","T","A","T","U","T","A","R","I","O">>)
        /\ extrair_valores_vencimento(LinhasBrutas[i]) > 0}

FontesP2 ==
    {i \in 1..(Len(LinhasBrutas) - 1) :
        /\ Contains(LinhasNormalizadas[i], <<"V","E","N","C","I","M","E","N","T","O"," ","B","A","S","E">>)
        /\ FindAllValores(LinhasBrutas[i + 1]) # <<>>}

FontesP3 ==
    {i \in 1..Len(LinhasBrutas) :
        /\ \/ Contains(LinhasNormalizadas[i], <<"S","A","L","A","R","I","O"," ","B","A","S","E">>)
           \/ /\ StartsWith(Strip(LinhasNormalizadas[i]), <<"S","A","L","A","R","I","O">>)
              /\ ~Contains(LinhasNormalizadas[i], <<"D","E","S","C","O","N","T","O">>)
        /\ extrair_valores_vencimento(LinhasBrutas[i]) > 0}

\* C29: the base salary is the earnings value of the first VENCIMENTOS
\* ESTATUTARIOS line with a positive value; when the payslip has none, the
\* first amount of the line after the first VENCIMENTO BASE header that has an
\* amount on its next line; when it has none either, the earnings value of the
\* first SALARIO BASE line (or line starting with SALARIO, without DESCONTO)
\* with a positive value; else 0 -- wherever the lines stand in the payslip.
C29_SalaryByStrictPriority ==
    TemResultado =>
        resultado.margem.salario_base =
            (IF FontesP1 # {} THEN extrair_valores_vencimento(LinhasBrutas[Min(FontesP1)])
             ELSE IF FontesP2 # {}
                  THEN ParseValor(FindAllValores(LinhasBrutas[Min(FontesP2) + 1])[1])
             ELSE IF FontesP3 # {} THEN extrair_valores_vencimento(LinhasBrutas[Min(FontesP3)])
             ELSE 0)

\* a payslip where a SALARIO BASE line comes first, a VENCIMENTO BASE header
\* with its amounts after it: the header decides
C29_Witness ==
    /\ TemResultado
    /\ FontesP1 = {} /\ FontesP2 = {2} /\ FontesP3 = {1}
    /\ resultado.margem.salario_base = 180000

\* the keywords the list of other fixed earnings names
OutrosFixosNomeados ==
    { <<"H","O","R","A"," ","A","T","I","V">>, <<"E","X","T","R","A"," ","C","L","A","S","S","E">>, <<"A","T","I","V",".","E","X","T","R","A">>, <<"I","N","S","A","L","U","B","R","I","D","A","D","E">>,
      <<"P","E","R","I","C","U","L","O","S","I","D","A","D","E">>, <<"A","D","I","C","I","O","N","A","L"," ","N","O","T","U","R","N","O">> }

\* C30: a line without DESCONTO that holds any one keyword of the list of
\* other fixed earnings and a positive earnings value is in outros_fixos, and
\* its value in the total of the fixed earnings and so in the base of the
\* calculation.
C30_EveryOtherFixedKeyword ==
    TemResultado =>
        \A i \in 1..Len(LinhasBrutas) :
            (/\ ContainsAny(LinhasNormalizadas[i], OutrosFixosNomeados)
             /\ ~Contains(LinhasNormalizadas[i], <<"D","E","S","C","O","N","T","O">>)
             /\ extrair_valores_vencimento(LinhasBrutas[i]) > 0)
            => /\ \E k \in 1..Len(resultado.vencimentos_fixos.outros_fixos) :
                      resultado.vencimentos_fixos.outros_fixos[k]
                          = [descricao |-> Strip(LinhasBrutas[i]),
                             valor |-> extrair_valores_vencimento(LinhasBrutas[i])]
               /\ resultado.margem.total_vencimentos_fixos
                      >= extrair_valores_vencimento(LinhasBrutas[i])

\* the file has a row that says no opportunity was found
TemRegistroNenhuma(nome) ==
    \E r \in Range(RegistrosDoArquivo(nome)) : r.tipo_oportunidade = "NENHUMA"

\* C26: a file has a NENHUMA row only when no line of it is classified in
\* any bucket; a file with a classified line, be it of own contracts only,
\* has none.
C26_NenhumaOnlyWithoutLines ==
    pc = "lote_processado" =>
        \A i \in 1..Len(lote) :
            TemRegistroNenhuma(lote[i].nome) => ClassificadasDoArquivo(lote[i]) = 0

\* C27: every distinct line of the payslip adds its deduction value to the
\* committed card total at most once, whatever brands and keywords it holds:
\* the total is no more than the sum over the distinct classified lines.
C27_LineCountedAtMostOnce ==
    TemResultado => resultado.valores_cartoes.total <= SomaDescontos(LinhasClassificadas)

\* the result the page shows under "analysis completed": the one stored in the
\* session, when there is one
ResultadoExibido == resultado

\* C28: after a click on Analisar the result shown is that of the payslip
\* just analysed; when its analysis gives no result, no result is shown.
C28_ShownResultIsLatest ==
    pc = "analisado" =>
        ResultadoExibido = analisar_holerite_streamlit(texto, NomeArquivo)
====
